---- MODULE Spec2Model ----
(***************************************************************************)
(* A model of okanjo-app-pg: PostgresCrudService (criteria compiler, query *)
(* assembly, soft-delete concealment, CRUD operations) on top of           *)
(* PostgresService.query, executed against a small relational table.       *)
(*                                                                         *)
(* JavaScript values are modelled as string tokens; a criteria value is a  *)
(* tagged record (scalar, array or operator object).  A statement is kept  *)
(* structured: its WHERE fragments carry the placeholder numbers the code  *)
(* wrote into the text, and the argument vector is the code's args array.  *)
(***************************************************************************)
EXTENDS Integers, Sequences, FiniteSets, TLC

(***************************************************************************)
(* JavaScript values                                                       *)
(***************************************************************************)
UNDEF == "<undefined>"
NULL == "<null>"
TRUETOK == "true"
FALSETOK == "false"
\* what the driver sends for an array or an object bound to a text parameter
SERIALIZED == "<serialized>"

\* the values JavaScript treats as false in a condition
Falsy == {UNDEF, NULL, "", "0", FALSETOK}

Sc(s) == [kind |-> "scalar", s |-> s, arr |-> <<>>, ops |-> <<>>]
Arr(a) == [kind |-> "array", s |-> "", arr |-> a, ops |-> <<>>]
Obj(o) == [kind |-> "object", s |-> "", arr |-> <<>>, ops |-> o]
OpEntry(name, v) == [op |-> name, v |-> v]

\* if (value): arrays and objects are always truthy
Truthy(v) == v.kind # "scalar" \/ v.s \notin Falsy

\* value.$op of an operator object (undefined when the key is absent)
RECURSIVE OpLookup(_, _, _)
OpLookup(ops, name, i) ==
    IF i > Len(ops) THEN Sc(UNDEF)
    ELSE IF ops[i].op = name THEN ops[i].v
    ELSE OpLookup(ops, name, i + 1)

GetOp(v, name) == OpLookup(v.ops, name, 1)

(***************************************************************************)
(* Criteria: an ordered mapping field -> value (insertion order of the     *)
(* object's keys), or null.                                                *)
(***************************************************************************)
Entry(f, v) == [field |-> f, val |-> v]
Crit(kv) == [isNull |-> FALSE, kv |-> kv]
NullCriteria == [isNull |-> TRUE, kv |-> <<>>]

HasKey(kv, f) == \E i \in 1..Len(kv) : kv[i].field = f

\* criteria[f]
GetKey(kv, f) ==
    IF HasKey(kv, f)
    THEN kv[CHOOSE i \in 1..Len(kv) : kv[i].field = f].val
    ELSE Sc(UNDEF)

\* delete criteria[f]
DeleteKey(kv, f) == SelectSeq(kv, LAMBDA e : e.field # f)

\* criteria[f] = v : an existing key keeps its place, a new key goes last
SetKey(kv, f, v) ==
    IF HasKey(kv, f)
    THEN [i \in 1..Len(kv) |-> IF kv[i].field = f THEN Entry(f, v) ELSE kv[i]]
    ELSE Append(kv, Entry(f, v))

(***************************************************************************)
(* WHERE fragments.  ph holds the numbers k of the placeholders $k that    *)
(* the fragment's text contains, in the order they appear.                 *)
(***************************************************************************)
Clause(f, op, ph) == [field |-> f, op |-> op, ph |-> ph]

\* value.map(val => { args.push(val); return '$'+args.length; })
PushAll(args, arr) == args \o [i \in 1..Len(arr) |-> Sc(arr[i])]
PlaceholdersFor(args, arr) == [i \in 1..Len(arr) |-> Len(args) + i]

\* the keys _buildCriteria probes on an operator object, in the code's order
RangeOps == << [key |-> "$gt", op |-> ">"], [key |-> "$gte", op |-> ">="],
               [key |-> "$lt", op |-> "<"], [key |-> "$lte", op |-> "<="],
               [key |-> "$eqi", op |-> "LOWER="], [key |-> "$nei", op |-> "LOWER!="] >>

\* the accumulator _buildCriteria works on: where, args and the diagnostics sent
Acc(where, args, reports) == [where |-> where, args |-> args, reports |-> reports]

\* if (value.$gt) { where.push(`"field" > $n`); args.push(value.$gt); } and so on
RECURSIVE ApplyRangeOps(_, _, _, _)
ApplyRangeOps(acc, field, value, i) ==
    IF i > Len(RangeOps) THEN acc
    ELSE LET operand == GetOp(value, RangeOps[i].key)
             next == IF Truthy(operand)
                     THEN Acc(Append(acc.where,
                                     Clause(field, RangeOps[i].op, <<Len(acc.args) + 1>>)),
                              Append(acc.args, operand),
                              acc.reports)
                     ELSE acc
         IN ApplyRangeOps(next, field, value, i + 1)

\* one field of the criteria, scalar or array branch
buildValue(acc, field, value, equality) ==
    IF value.kind = "array"
    THEN Acc(Append(acc.where,
                    Clause(field, IF equality THEN "IN" ELSE "NOT IN",
                           PlaceholdersFor(acc.args, value.arr))),
             PushAll(acc.args, value.arr),
             acc.reports)
    ELSE Acc(Append(acc.where,
                    Clause(field, IF equality THEN "=" ELSE "!=", <<Len(acc.args) + 1>>)),
             Append(acc.args, value),
             acc.reports)

\* if (startingWhereLength === where.length) this.app.report(...)
reportIfNoneSet(acc, built) ==
    IF Len(built.where) = Len(acc.where)
    THEN Acc(built.where, built.args, built.reports + 1)
    ELSE built

\* this._buildCriteria({ [field]: value.$ne }, where, args, false)
buildNe(acc, field, ne) ==
    IF Truthy(ne) THEN buildValue(acc, field, ne, FALSE) ELSE acc

\* one field of the criteria
buildField(acc, field, value, equality) ==
    IF value.kind = "object"
    THEN reportIfNoneSet(acc, ApplyRangeOps(buildNe(acc, field, GetOp(value, "$ne")),
                                            field, value, 1))
    ELSE buildValue(acc, field, value, equality)

\* Object.keys(criteria).forEach(...)
RECURSIVE buildFrom(_, _, _, _)
buildFrom(kv, acc, equality, i) ==
    IF i > Len(kv) THEN acc
    ELSE buildFrom(kv, buildField(acc, kv[i].field, kv[i].val, equality), equality, i + 1)

buildCriteria(kv, where, args, equality) ==
    buildFrom(kv, Acc(where, args, 0), equality, 1)

(***************************************************************************)
(* The table.  Columns follow the test schema crud_test.user: id is the    *)
(* primary key, status is NOT NULL text, name stands for the nullable text *)
(* columns, updated is a NOT NULL timestamp.                               *)
(***************************************************************************)
Ids == {"a", "b"}
IdOrder == <<"a", "b">>
Statuses == {"active", "dead"}
Names == {"x", "y"}
MaxClock == 1
TimeName == <<"t1", "t2", "t3">>
Times == {"t0"} \cup {TimeName[i] : i \in 1..MaxClock}
AllTimes == {"t0"} \cup {TimeName[i] : i \in 1..Len(TimeName)}
Columns == <<"id", "status", "name", "updated">>

Row(id, status, name, updated) ==
    [id |-> id, status |-> status, name |-> name, updated |-> updated]

\* the rows of a table in physical order
RowsOf(tbl) ==
    LET present == SelectSeq(IdOrder, LAMBDA i : \E r \in tbl : r.id = i)
    IN [k \in 1..Len(present) |-> CHOOSE r \in tbl : r.id = present[k]]

(***************************************************************************)
(* Statements and their execution by the database.                         *)
(***************************************************************************)
SetItem(f, ph) == [field |-> f, ph |-> ph]

\* fields: the projection (Star or a list of columns); order: ORDER BY items; offset and
\* limit: the placeholder numbers of OFFSET $k and LIMIT $k (0: no such clause);
\* limitOne: the literal LIMIT 1 of retrieve
\* returning: the statement ends with RETURNING *
Statement(verb, count, fields, sets, where, order, offset, limit, limitOne, returning, args) ==
    [verb |-> verb, count |-> count, fields |-> fields, sets |-> sets,
     where |-> where, order |-> order, offset |-> offset, limit |-> limit,
     limitOne |-> limitOne, returning |-> returning, args |-> args]

Star == [star |-> TRUE, cols |-> <<>>]
Cols(c) == [star |-> FALSE, cols |-> c]

NoStatement ==
    Statement("none", FALSE, Star, <<>>, <<>>, <<>>, 0, 0, FALSE, FALSE, <<>>)

\* the text the driver binds for an argument: undefined is sent as NULL, an
\* array or an object as its serialization
ParamText(v) ==
    IF v.kind # "scalar" THEN SERIALIZED
    ELSE IF v.s = UNDEF THEN NULL ELSE v.s

\* collation order of the scalar tokens, for the range operators
Rank(t) ==
    CASE t = "" -> 0
      [] t = "a" -> 1
      [] t = "active" -> 2
      [] t = "b" -> 3
      [] t = "dead" -> 4
      [] t = "x" -> 5
      [] t = "y" -> 6
      [] OTHER -> 7

Lower(t) == t

\* SQL comparison with a bound parameter; a NULL operand makes it unknown,
\* which a WHERE clause treats as not selected
SqlCompare(col, op, p) ==
    IF col = NULL \/ p = NULL THEN FALSE
    ELSE CASE op = "=" -> col = p
           [] op = "!=" -> col # p
           [] op = ">" -> Rank(col) > Rank(p)
           [] op = ">=" -> Rank(col) >= Rank(p)
           [] op = "<" -> Rank(col) < Rank(p)
           [] op = "<=" -> Rank(col) <= Rank(p)
           [] op = "LOWER=" -> Lower(col) = Lower(p)
           [] op = "LOWER!=" -> Lower(col) # Lower(p)

\* does the row satisfy one WHERE fragment, its placeholders read from args
ClauseHolds(r, c, args) ==
    LET col == r[c.field]
        P(k) == ParamText(args[c.ph[k]])
    IN CASE c.op = "IN" ->
              col # NULL /\ \E k \in 1..Len(c.ph) : P(k) # NULL /\ col = P(k)
         [] c.op = "NOT IN" ->
              col # NULL /\ \A k \in 1..Len(c.ph) : P(k) # NULL /\ col # P(k)
         [] c.op = "=AND!=" ->
              SqlCompare(col, "=", P(1)) /\ SqlCompare(col, "!=", P(2))
         [] OTHER -> SqlCompare(col, c.op, P(1))

\* where.join(' AND ')
WhereHolds(r, stmt) ==
    \A i \in 1..Len(stmt.where) : ClauseHolds(r, stmt.where[i], stmt.args)

Matching(tbl, stmt) == {r \in tbl : WhereHolds(r, stmt)}

\* the row after SET field = $k, ...
ApplySets(r, stmt) ==
    [f \in DOMAIN r |->
        IF \E i \in 1..Len(stmt.sets) : stmt.sets[i].field = f
        THEN ParamText(stmt.args[
                 stmt.sets[CHOOSE i \in 1..Len(stmt.sets) : stmt.sets[i].field = f].ph])
        ELSE r[f]]

\* the schema's constraints on a stored row
RowValid(r) ==
    /\ r.id # NULL
    /\ r.status # NULL
    /\ r.updated \in AllTimes

NumOf(t) == CASE t = "0" -> 0 [] t = "1" -> 1 [] t = "2" -> 2 [] t = "-1" -> -1 [] OTHER -> 0

\* ORDER BY: does row r come before row q
Before(r, q, order) ==
    \E i \in 1..Len(order) :
        /\ \A j \in 1..(i - 1) : r[order[j].field] = q[order[j].field]
        /\ IF order[i].asc
           THEN Rank(r[order[i].field]) < Rank(q[order[i].field])
           ELSE Rank(r[order[i].field]) > Rank(q[order[i].field])

RECURSIVE InsertRow(_, _, _, _)
InsertRow(sorted, r, order, i) ==
    IF i > Len(sorted) THEN Append(sorted, r)
    ELSE IF Before(r, sorted[i], order)
         THEN SubSeq(sorted, 1, i - 1) \o <<r>> \o SubSeq(sorted, i, Len(sorted))
         ELSE InsertRow(sorted, r, order, i + 1)

RECURSIVE SortRows(_, _, _)
SortRows(rows, order, i) ==
    IF i > Len(rows) THEN <<>>
    ELSE InsertRow(SortRows(rows, order, i + 1), rows[i], order, 1)

\* SELECT "f1", "f2": the columns left out are absent from the returned row
Project(r, fields) ==
    IF fields.star THEN r
    ELSE [f \in DOMAIN r |->
            IF \E i \in 1..Len(fields.cols) : fields.cols[i] = f THEN r[f] ELSE UNDEF]

\* rows [offset, offset + limit) of a result
Page(rows, stmt) ==
    LET off == IF stmt.offset = 0 THEN 0 ELSE NumOf(ParamText(stmt.args[stmt.offset]))
        skipped == IF off >= Len(rows) THEN <<>> ELSE SubSeq(rows, off + 1, Len(rows))
        lim == IF stmt.limitOne THEN 1
               ELSE IF stmt.limit = 0 THEN Len(skipped)
               ELSE NumOf(ParamText(stmt.args[stmt.limit]))
    IN IF lim >= Len(skipped) THEN skipped ELSE SubSeq(skipped, 1, lim)

\* the rows a SELECT returns
Selected(hit, stmt) ==
    LET ordered == IF stmt.order = <<>> THEN RowsOf(hit)
                   ELSE SortRows(RowsOf(hit), stmt.order, 1)
        paged == Page(ordered, stmt)
    IN [k \in 1..Len(paged) |-> Project(paged[k], stmt.fields)]

IsColumn(f) == \E i \in 1..Len(Columns) : Columns[i] = f

\* the statement is rejected before it runs: IN (), SET with nothing to set, or a
\* column the table does not have
SyntaxError(stmt) ==
    \/ \E i \in 1..Len(stmt.where) :
          \/ stmt.where[i].op \in {"IN", "NOT IN"} /\ stmt.where[i].ph = <<>>
          \/ ~IsColumn(stmt.where[i].field)
    \/ stmt.verb \in {"UPDATE", "INSERT"} /\ stmt.sets = <<>>
    \/ \E i \in 1..Len(stmt.sets) : ~IsColumn(stmt.sets[i].field)
    \/ \E i \in 1..Len(stmt.fields.cols) : ~IsColumn(stmt.fields.cols[i])
    \/ stmt.count /\ stmt.order # <<>>
    \/ \E i \in 1..Len(stmt.order) : ~IsColumn(stmt.order[i].field)

Result(ok, rows, rowCount, count, tbl) ==
    [ok |-> ok, rows |-> rows, rowCount |-> rowCount, count |-> count, table |-> tbl]

\* the statement failed: nothing is returned and the table is as it was
Failed(tbl) == Result(FALSE, <<>>, 0, 0, tbl)

\* UPDATE: the rows hit become the rows new, unless a constraint forbids it
Updated(stmt, tbl, hit, new) ==
    IF (\A r \in new : RowValid(r))
       /\ Cardinality({r.id : r \in (tbl \ hit) \cup new}) = Cardinality(tbl)
    THEN Result(TRUE, IF stmt.returning THEN RowsOf(new) ELSE <<>>,
                Cardinality(hit), 0, (tbl \ hit) \cup new)
    ELSE Failed(tbl)

\* SELECT: the rows returned
Returned(rows, tbl) == Result(TRUE, rows, Len(rows), 0, tbl)

\* INSERT of row r, unless a constraint forbids it
Inserted(tbl, r) ==
    IF RowValid(r) /\ ~\E q \in tbl : q.id = r.id
    THEN Result(TRUE, <<r>>, 1, 0, tbl \cup {r})
    ELSE Failed(tbl)

\* SELECT COUNT(*) AS count: one row that holds n, unless OFFSET or LIMIT
\* leave it out
Counted(stmt, tbl, n) ==
    IF Len(Page(<<n>>, stmt)) = 1
    THEN Result(TRUE, <<>>, 1, n, tbl)
    ELSE Result(TRUE, <<>>, 0, 0, tbl)

\* a well-formed statement run on the rows its WHERE selects
Run(stmt, tbl, hit) ==
    CASE stmt.verb = "SELECT" /\ stmt.count -> Counted(stmt, tbl, Cardinality(hit))
      [] stmt.verb = "SELECT" /\ ~stmt.count ->
             Returned(Selected(hit, stmt), tbl)
      [] stmt.verb = "UPDATE" ->
             Updated(stmt, tbl, hit, {ApplySets(r, stmt) : r \in hit})
      [] stmt.verb = "DELETE" ->
             Result(TRUE, IF stmt.returning THEN RowsOf(hit) ELSE <<>>,
                    Cardinality(hit), 0, tbl \ hit)
      [] stmt.verb = "INSERT" ->
             Inserted(tbl, ApplySets(Row(NULL, NULL, NULL, NULL), stmt))

\* client.query(sql, args): the driver's result object and the table afterwards
Exec(stmt, tbl) ==
    IF SyntaxError(stmt) THEN Failed(tbl) ELSE Run(stmt, tbl, Matching(tbl, stmt))

(***************************************************************************)
(* PostgresCrudService: configuration                                      *)
(***************************************************************************)
\* the options the constructor reads (schema, table and service are given)
CtorOptions(idField, statusField, updatedField, modifiableKeys, deletedStatus, conceal) ==
    [idField |-> idField, statusField |-> statusField, updatedField |-> updatedField,
     modifiableKeys |-> modifiableKeys, deletedStatus |-> deletedStatus,
     concealDeadResources |-> conceal]

\* a || b on tokens
OrElse(a, b) == IF a \in Falsy THEN b ELSE a

\* the required options: is options.service given, its config.database, and
\* options.schema and options.table
Required(service, database, schema, tbl) ==
    [service |-> service, database |-> database, schema |-> schema, table |-> tbl]

\* what new PostgresCrudService(...) leaves: the error it threw, or this.schema
\* and this.table
Constructed(thrown, schema, tbl) == [thrown |-> thrown, schema |-> schema, table |-> tbl]

\* this.service = options.service; this.schema = options.schema; this.table = ...
requiredSettings(options) ==
    IF options.service \in Falsy THEN Constructed("service", UNDEF, UNDEF)
    ELSE IF options.schema \in Falsy THEN Constructed("schema", UNDEF, UNDEF)
    ELSE IF options.table \in Falsy THEN Constructed("table", UNDEF, UNDEF)
    ELSE Constructed("none", options.schema, options.table)

\* the construction of the test suite
TestService == Required("db", UNDEF, "crud_test", "user")

\* the required options callers construct with
RequiredInputs ==
    { Required(sv, db, sc, t) : sv \in {UNDEF, "db"}, db \in {UNDEF, "postgres"},
                                sc \in {UNDEF, "crud_test"}, t \in {UNDEF, "user"} }

constructor(options) ==
    [idField |-> OrElse(options.idField, "id"),
     statusField |-> OrElse(options.statusField, "status"),
     updatedField |-> OrElse(options.updatedField, "updated"),
     modifiableKeys |-> options.modifiableKeys,
     deletedStatus |-> OrElse(options.deletedStatus, "dead"),
     concealDeadResources |->
         IF options.concealDeadResources # UNDEF
         THEN options.concealDeadResources ELSE TRUETOK]

(***************************************************************************)
(* Per-call options                                                        *)
(***************************************************************************)
\* a fields or sort specification: absent, or an ordered mapping field -> token
NoSpec == [given |-> FALSE, kv |-> <<>>]
SpecOf(kv) == [given |-> TRUE, kv |-> kv]

Options(skip, take, fields, sort, conceal, mode, client) ==
    [skip |-> skip, take |-> take, fields |-> fields, sort |-> sort,
     conceal |-> conceal, mode |-> mode, client |-> client]

NoOptions == Options(UNDEF, UNDEF, NoSpec, NoSpec, UNDEF, UNDEF, UNDEF)

COUNT == "COUNT"

(***************************************************************************)
(* The soft-delete injection shared by find, bulkUpdate and                *)
(* bulkDeletePermanently: given the criteria's entries and the arguments   *)
(* pushed so far, the WHERE fragments and arguments it adds and the        *)
(* criteria object as it leaves it.                                        *)
(***************************************************************************)
Merged(kv, where, args) == [kv |-> kv, where |-> where, args |-> args]

\* faulty variant: a status the caller gave is compiled as it stands
concealMergeKeepsStatus(cfg, kv, args) ==
    IF Truthy(GetKey(kv, cfg.statusField))
    THEN Merged(kv, <<>>, args)
    ELSE Merged(SetKey(kv, cfg.statusField,
                       Obj(<<OpEntry("$ne", Sc(cfg.deletedStatus))>>)),
                <<>>, args)

\* faulty variant: the merge always writes $1 and $2, whatever was pushed before
concealMergeFixedPlaceholders(cfg, kv, args) ==
    IF Truthy(GetKey(kv, cfg.statusField))
    THEN Merged(DeleteKey(kv, cfg.statusField),
                <<Clause(cfg.statusField, "=AND!=", <<1, 2>>)>>,
                args \o <<GetKey(kv, cfg.statusField), Sc(cfg.deletedStatus)>>)
    ELSE Merged(SetKey(kv, cfg.statusField,
                       Obj(<<OpEntry("$ne", Sc(cfg.deletedStatus))>>)),
                <<>>, args)

concealMerge(cfg, kv, args) ==
    IF Truthy(GetKey(kv, cfg.statusField))
    THEN Merged(DeleteKey(kv, cfg.statusField),
                <<Clause(cfg.statusField, "=AND!=", <<Len(args) + 1, Len(args) + 2>>)>>,
                args \o <<GetKey(kv, cfg.statusField), Sc(cfg.deletedStatus)>>)
    ELSE Merged(SetKey(kv, cfg.statusField,
                       Obj(<<OpEntry("$ne", Sc(cfg.deletedStatus))>>)),
                <<>>, args)

\* this._concealDeadResources && conceal
concealActive(cfg, conceal) ==
    cfg.concealDeadResources \notin Falsy /\ conceal \notin Falsy

(***************************************************************************)
(* PostgresService.query run to completion for one statement.  reportFails *)
(* says whether app.report rejects when the failure is reported.           *)
(***************************************************************************)
Settlement(settled, res, acquired, released, reports) ==
    [settled |-> settled, res |-> res, acquired |-> acquired,
     released |-> released, reports |-> reports]

\* the .then and .catch handlers of client.query(sql, args)
Settle(res, acquired, reportFails) ==
    IF res.ok THEN Settlement("resolved", res, acquired, acquired, 0)
    ELSE IF reportFails THEN Settlement("pending", res, acquired, 0, 1)
    ELSE Settlement("rejected", res, acquired, acquired, 1)

\* faulty variant: a client is taken from the pool even when one was supplied
queryFromPool(stmt, client, tbl, reportFails) ==
    Settle(Exec(stmt, tbl), 1, reportFails)

query(stmt, client, tbl, reportFails) ==
    Settle(Exec(stmt, tbl), IF client # UNDEF THEN 0 ELSE 1, reportFails)

(***************************************************************************)
(* What a CRUD call did: how its promise settled and with what, the        *)
(* statement it issued, the sessions it took and gave back, the table      *)
(* afterwards, and the caller's objects as the call left them.             *)
(***************************************************************************)
NoDoc == Row(UNDEF, UNDEF, UNDEF, UNDEF)

Outcome(settled, kind, rows, rowCount, count, stmt, acquired, released, reports, tbl, criteriaAfter, docAfter) ==
    [settled |-> settled, kind |-> kind, rows |-> rows, rowCount |-> rowCount,
     count |-> count, stmt |-> stmt, acquired |-> acquired, released |-> released,
     reports |-> reports, table |-> tbl, criteriaAfter |-> criteriaAfter,
     docAfter |-> docAfter]

\* what the callback given to .then() makes of the driver's result; a call
\* without a callback resolves to the result object itself
Then(cb, res) ==
    CASE cb = "res.rows[0]" -> IF res.rows # <<>> THEN "row" ELSE "undefined"
      [] cb = "res.rows[0] || null" -> IF res.rows # <<>> THEN "row" ELSE "null"
      [] cb = "res.rows" -> "rows"
      [] OTHER -> "result"

\* the call went through query
Queried(q, cb, stmt, extraReports, criteriaAfter, docAfter) ==
    IF q.settled = "resolved"
    THEN Outcome("resolved", Then(cb, q.res), q.res.rows, q.res.rowCount, q.res.count,
                 stmt, q.acquired, q.released, q.reports + extraReports, q.res.table,
                 criteriaAfter, docAfter)
    ELSE Outcome(q.settled, "error", <<>>, 0, 0, stmt, q.acquired, q.released,
                 q.reports + extraReports, q.res.table, criteriaAfter, docAfter)

\* Promise.reject(new Error(...)) after this.app.report(...), without any query
UsageError(tbl, criteriaAfter, docAfter) ==
    Outcome("rejected", "usage", <<>>, 0, 0, NoStatement, 0, 0, 1, tbl,
            criteriaAfter, docAfter)

\* a statement ready to be issued, the diagnostics its compilation sent, and
\* the caller's criteria object as the compilation left it
Compiled(stmt, reports, criteriaAfter) ==
    [stmt |-> stmt, reports |-> reports, criteriaAfter |-> criteriaAfter]

\* return this.service.query(sql, args, { client }).then(cb)
Issue(c, cb, client, tbl, reportFails, docAfter) ==
    Queried(query(c.stmt, client, tbl, reportFails), cb, c.stmt, c.reports,
            c.criteriaAfter, docAfter)

\* Object.keys(doc) without the id field, with the SET items and their arguments
SetKeys(cfg, doc) ==
    SelectSeq(Columns, LAMBDA f : doc[f] # UNDEF /\ f # cfg.idField)

SetsOf(cfg, doc) ==
    [i \in 1..Len(SetKeys(cfg, doc)) |-> SetItem(SetKeys(cfg, doc)[i], i)]

SetArgs(cfg, doc) ==
    [i \in 1..Len(SetKeys(cfg, doc)) |-> Sc(doc[SetKeys(cfg, doc)[i]])]

(***************************************************************************)
(* create                                                                  *)
(***************************************************************************)
\* INSERT INTO ... (keys) VALUES ($1, ...) RETURNING *
insertStatement(data, keys) ==
    Statement("INSERT", FALSE, Star, [i \in 1..Len(keys) |-> SetItem(keys[i], i)],
              <<>>, <<>>, 0, 0, FALSE, TRUE, [i \in 1..Len(keys) |-> Sc(data[keys[i]])])

\* faulty variant: the name column is left out of the INSERT
createWithoutName(cfg, data, options, tbl, reportFails) ==
    Issue(Compiled(insertStatement(data, SelectSeq(Columns, LAMBDA f : data[f] # UNDEF
                                                                       /\ f # "name")),
                   0, NullCriteria),
          "res.rows[0]", options.client, tbl, reportFails, data)

create(cfg, data, options, tbl, reportFails) ==
    Issue(Compiled(insertStatement(data, SelectSeq(Columns, LAMBDA f : data[f] # UNDEF)),
                   0, NullCriteria),
          "res.rows[0]", options.client, tbl, reportFails, data)

(***************************************************************************)
(* retrieve                                                                *)
(***************************************************************************)
\* SELECT * ... WHERE id = $1 [AND status != $2] LIMIT 1
retrieveStatement(cfg, id, concealed) ==
    Statement("SELECT", FALSE, Star, <<>>,
              <<Clause(cfg.idField, "=", <<1>>)>>
              \o IF concealed THEN <<Clause(cfg.statusField, "!=", <<2>>)>> ELSE <<>>,
              <<>>, 0, 0, TRUE, FALSE,
              <<Sc(id)>> \o IF concealed THEN <<Sc(cfg.deletedStatus)>> ELSE <<>>)

\* Promise.resolve(null)
NotFound(tbl) ==
    Outcome("resolved", "null", <<>>, 0, 0, NoStatement, 0, 0, 0, tbl, NullCriteria, NoDoc)

\* faulty variant: the call's conceal option switches the status clause off
retrieveHonoursConceal(cfg, id, options, tbl, reportFails) ==
    IF id # UNDEF /\ id # NULL
    THEN Issue(Compiled(retrieveStatement(cfg, id,
                            concealActive(cfg, IF options.conceal # UNDEF
                                               THEN options.conceal ELSE TRUETOK)),
                        0, NullCriteria),
               "res.rows[0] || null", options.client, tbl, reportFails, NoDoc)
    ELSE NotFound(tbl)

\* faulty variant: the statement is issued whatever the id is
retrieveAlwaysQueries(cfg, id, options, tbl, reportFails) ==
    Issue(Compiled(retrieveStatement(cfg, id, cfg.concealDeadResources \notin Falsy),
                   0, NullCriteria),
          "res.rows[0] || null", options.client, tbl, reportFails, NoDoc)

retrieve(cfg, id, options, tbl, reportFails) ==
    IF id # UNDEF /\ id # NULL
    THEN Issue(Compiled(retrieveStatement(cfg, id, cfg.concealDeadResources \notin Falsy),
                        0, NullCriteria),
               "res.rows[0] || null", options.client, tbl, reportFails, NoDoc)
    ELSE NotFound(tbl)

(***************************************************************************)
(* find and count                                                          *)
(***************************************************************************)
\* faulty variant: nothing is injected when the caller gave no criteria
findMergeSkipsNull(cfg, criteria, conceal) ==
    IF concealActive(cfg, conceal) /\ ~criteria.isNull
    THEN concealMerge(cfg, criteria.kv, <<>>)
    ELSE Merged(criteria.kv, <<>>, <<>>)

\* the criteria find compiles: the caller's object after the soft-delete
\* injection, or a fresh object when the caller gave none
findMerge(cfg, criteria, conceal) ==
    IF concealActive(cfg, conceal)
    THEN IF ~criteria.isNull
         THEN concealMerge(cfg, criteria.kv, <<>>)
         ELSE Merged(<<Entry(cfg.statusField,
                             Obj(<<OpEntry("$ne", Sc(cfg.deletedStatus))>>))>>,
                     <<>>, <<>>)
    ELSE Merged(criteria.kv, <<>>, <<>>)

\* fields.id = 1 when it is undefined; Object.keys(fields).filter(f => fields[f])
allowedFields(fields) ==
    LET kv == IF HasKey(fields.kv, "id") THEN fields.kv
              ELSE Append(fields.kv, Entry("id", Sc("1")))
        kept == SelectSeq(kv, LAMBDA e : Truthy(e.val))
    IN [i \in 1..Len(kept) |-> kept[i].field]

orderBy(sort) ==
    [i \in 1..Len(sort.kv) |->
        [field |-> sort.kv[i].field, asc |-> NumOf(sort.kv[i].val.s) > 0]]

\* SELECT fields FROM ... [WHERE ...] [ORDER BY ...] [OFFSET $n] [LIMIT $n];
\* withSkip is the argument list once options.skip has been pushed
selectStatement(options, fields, b, withSkip) ==
    Statement("SELECT",
              ~fields.given /\ options.mode = COUNT,
              IF fields.given THEN Cols(allowedFields(fields)) ELSE Star,
              <<>>, b.where,
              IF options.sort.given THEN orderBy(options.sort) ELSE <<>>,
              IF options.skip # UNDEF THEN Len(b.args) + 1 ELSE 0,
              IF options.take # UNDEF THEN Len(withSkip) + 1 ELSE 0,
              FALSE, FALSE,
              IF options.take # UNDEF THEN Append(withSkip, Sc(options.take))
              ELSE withSkip)

\* the caller's criteria object after the call: null stays null, an object
\* carries what the injection did to it
criteriaLeft(criteria, m) == IF criteria.isNull THEN NullCriteria ELSE Crit(m.kv)

\* find from the compiled criteria b on
findCompiled(criteria, options, m, b) ==
    Compiled(selectStatement(options,
                             IF options.mode # UNDEF THEN NoSpec ELSE options.fields,
                             b,
                             IF options.skip # UNDEF
                             THEN Append(b.args, Sc(options.skip)) ELSE b.args),
             b.reports, criteriaLeft(criteria, m))

\* find from the merged criteria m on: this._buildCriteria(criteria, where, args)
findMerged(criteria, options, m) ==
    findCompiled(criteria, options, m, buildCriteria(m.kv, m.where, m.args, TRUE))

findStatement(cfg, criteria, options) ==
    findMerged(criteria, options,
               findMerge(cfg, criteria,
                         IF options.conceal # UNDEF THEN options.conceal ELSE TRUETOK))

find(cfg, criteria, options, tbl, reportFails) ==
    Issue(findStatement(cfg, criteria, options), "res.rows", options.client, tbl,
          reportFails, NoDoc)

\* faulty variant: the paging, sort and projection options stay in place
countOptionsKeepsPaging(options) == [options EXCEPT !.mode = COUNT]

\* options.mode = COUNT; delete options.skip/take/sort/fields; this.find(...)
countOptions(options) ==
    [options EXCEPT !.mode = COUNT, !.skip = UNDEF, !.take = UNDEF,
                    !.sort = NoSpec, !.fields = NoSpec]

\* .then(rows => BigInt(rows && rows.length && rows[0].count))
asCount(found) ==
    IF found.settled = "resolved" THEN [found EXCEPT !.kind = "count"] ELSE found

count(cfg, criteria, options, tbl, reportFails) ==
    asCount(find(cfg, criteria, countOptions(options), tbl, reportFails))

(***************************************************************************)
(* update and delete                                                       *)
(***************************************************************************)
\* data[property] is copied when it is truthy
RECURSIVE applyFrom(_, _, _, _)
applyFrom(keys, doc, data, i) ==
    IF i > Len(keys) THEN doc
    ELSE applyFrom(keys,
                   IF data[keys[i]] \notin Falsy
                   THEN [doc EXCEPT ![keys[i]] = data[keys[i]]] ELSE doc,
                   data, i + 1)

\* faulty variant: every key of the patch is copied
applyAllKeys(cfg, doc, data) ==
    applyFrom(SelectSeq(Columns, LAMBDA f : f # cfg.idField), doc, data, 1)

applyUpdates(cfg, doc, data) == applyFrom(cfg.modifiableKeys, doc, data, 1)

\* if (this.updatedField) doc[this.updatedField] = new Date()
stamp(cfg, doc, now) ==
    IF cfg.updatedField \notin Falsy THEN [doc EXCEPT ![cfg.updatedField] = now] ELSE doc

\* UPDATE ... SET ... WHERE id = $n RETURNING *
updateStatement(cfg, changed, sets) ==
    Statement("UPDATE", FALSE, Star, sets,
              <<Clause(cfg.idField, "=", <<Len(sets) + 1>>)>>,
              <<>>, 0, 0, FALSE, TRUE,
              Append(SetArgs(cfg, changed), Sc(changed[cfg.idField])))

\* update once the document has id: the statement and its .then
updateRow(cfg, changed, options, tbl, reportFails) ==
    Issue(Compiled(updateStatement(cfg, changed, SetsOf(cfg, changed)), 0, NullCriteria),
          "res.rows[0]", options.client, tbl, reportFails, changed)

\* update after _applyUpdates and the stamp: the id check, then the statement
updateChanged(cfg, changed, options, tbl, reportFails) ==
    IF changed[cfg.idField] = UNDEF
    THEN UsageError(tbl, NullCriteria, changed)
    ELSE updateRow(cfg, changed, options, tbl, reportFails)

\* faulty variant: the statement is issued without looking at the id
updateWithoutIdCheck(cfg, doc, data, options, now, tbl, reportFails) ==
    updateRow(cfg, stamp(cfg, applyUpdates(cfg, doc, data), now), options, tbl,
              reportFails)

update(cfg, doc, data, options, now, tbl, reportFails) ==
    updateChanged(cfg, stamp(cfg, applyUpdates(cfg, doc, data), now), options, tbl,
                  reportFails)

\* faulty variant: the status is left as the caller passed it
deleteWithoutStatus(cfg, doc, options, now, tbl, reportFails) ==
    update(cfg, doc, NoDoc, options, now, tbl, reportFails)

\* doc[this.statusField] = this._deletedStatus; return this.update(doc, null, options)
delete(cfg, doc, options, now, tbl, reportFails) ==
    update(cfg, [doc EXCEPT ![cfg.statusField] = cfg.deletedStatus], NoDoc, options,
           now, tbl, reportFails)

(***************************************************************************)
(* bulkUpdate and bulkDelete                                               *)
(***************************************************************************)
\* criteria || {} and then the soft-delete injection, after the SET arguments
bulkMerge(cfg, criteria, conceal, args) ==
    IF concealActive(cfg, conceal)
    THEN concealMerge(cfg, criteria.kv, args)
    ELSE Merged(criteria.kv, <<>>, args)

\* UPDATE ... SET ... [WHERE ...] or DELETE FROM ... [WHERE ...], from the
\* compiled criteria b on
bulkCompiled(verb, criteria, sets, m, b) ==
    Compiled(Statement(verb, FALSE, Star, sets, b.where, <<>>, 0, 0, FALSE, FALSE, b.args),
             b.reports, criteriaLeft(criteria, m))

\* the same from the merged criteria m on: this._buildCriteria(criteria, where, args)
bulkStatement(verb, criteria, sets, m) ==
    bulkCompiled(verb, criteria, sets, m, buildCriteria(m.kv, m.where, m.args, TRUE))

\* bulkUpdate after the stamp
bulkUpdateStamped(cfg, criteria, stamped, options, tbl, reportFails) ==
    Issue(bulkStatement("UPDATE", criteria, SetsOf(cfg, stamped),
                        bulkMerge(cfg, criteria,
                                  IF options.conceal # UNDEF
                                  THEN options.conceal ELSE TRUETOK,
                                  SetArgs(cfg, stamped))),
          "res", options.client, tbl, reportFails, stamped)

bulkUpdate(cfg, criteria, data, options, now, tbl, reportFails) ==
    bulkUpdateStamped(cfg, criteria, stamp(cfg, data, now), options, tbl, reportFails)

bulkDelete(cfg, criteria, options, now, tbl, reportFails) ==
    bulkUpdate(cfg, criteria, [NoDoc EXCEPT ![cfg.statusField] = cfg.deletedStatus],
               options, now, tbl, reportFails)

(***************************************************************************)
(* deletePermanently and bulkDeletePermanently                             *)
(***************************************************************************)
\* faulty variant: the hard delete conceals dead rows as the bulk one does
deletePermanentlyConcealed(cfg, doc, options, tbl, reportFails) ==
    IF doc[cfg.idField] = UNDEF
    THEN UsageError(tbl, NullCriteria, doc)
    ELSE Issue(Compiled(Statement("DELETE", FALSE, Star, <<>>,
                                  <<Clause(cfg.idField, "=", <<1>>),
                                    Clause(cfg.statusField, "!=", <<2>>)>>,
                                  <<>>, 0, 0, FALSE, TRUE,
                                  <<Sc(doc[cfg.idField]), Sc(cfg.deletedStatus)>>),
                        0, NullCriteria),
               "res", options.client, tbl, reportFails, doc)

\* DELETE FROM ... WHERE id = $1 RETURNING *
deleteStatement(cfg, doc) ==
    Statement("DELETE", FALSE, Star, <<>>, <<Clause(cfg.idField, "=", <<1>>)>>,
              <<>>, 0, 0, FALSE, TRUE, <<Sc(doc[cfg.idField])>>)

deletePermanently(cfg, doc, options, tbl, reportFails) ==
    IF doc[cfg.idField] = UNDEF
    THEN UsageError(tbl, NullCriteria, doc)
    ELSE Issue(Compiled(deleteStatement(cfg, doc), 0, NullCriteria),
               "res", options.client, tbl, reportFails, doc)

bulkDeletePermanently(cfg, criteria, options, tbl, reportFails) ==
    Issue(bulkStatement("DELETE", criteria, <<>>,
                        bulkMerge(cfg, criteria,
                                  IF options.conceal # UNDEF
                                  THEN options.conceal ELSE TRUETOK,
                                  <<>>)),
          "res", options.client, tbl, reportFails, NoDoc)

(***************************************************************************)
(* The state: the service's configuration, the table, and the last call a  *)
(* caller made with what it was given and what came of it.                 *)
(***************************************************************************)
\* calls and checkedOut belong to PostgresService: the query calls in progress
\* and the number of pool clients that are checked out
\* boot belongs to init: the catalog and the init call in progress;
\* copy is the row object a caller keeps from a retrieve
VARIABLES cfg, table, last, calls, checkedOut, boot, copy

vars == <<cfg, table, last, calls, checkedOut, boot, copy>>

\* the call record: op and inputs, the table before, and the outcome
Call(op, id, criteria, options, doc, data, pre, out) ==
    [op |-> op, id |-> id, criteria |-> criteria, options |-> options,
     doc |-> doc, data |-> data, pre |-> pre, out |-> out]

NoCall ==
    Call("none", UNDEF, NullCriteria, NoOptions, NoDoc, NoDoc, {},
         Outcome("none", "none", <<>>, 0, 0, NoStatement, 0, 0, 0, {}, NullCriteria,
                 NoDoc))

(***************************************************************************)
(* The inputs callers draw from                                            *)
(***************************************************************************)
CtorInputs ==
    { CtorOptions(UNDEF, UNDEF, UNDEF, <<"name">>, UNDEF, UNDEF),
      CtorOptions(UNDEF, UNDEF, NULL, <<>>, UNDEF, FALSETOK) }

\* the scalar values a caller may ask the status to have
StatusValues == Statuses \cup {""}

StatusCriteria ==
    { Crit(<<Entry("status", Sc(x))>>) : x \in StatusValues }

CriteriaInputs ==
    {NullCriteria, Crit(<<>>)}
    \cup StatusCriteria
    \cup { Crit(<<Entry("status", Arr(<<"active", "dead">>))>>),
           Crit(<<Entry("status", Obj(<<OpEntry("$ne", Sc("active"))>>))>>),
           Crit(<<Entry("status", Obj(<<>>))>>),
           Crit(<<Entry("name", Sc("x"))>>),
           Crit(<<Entry("name", Sc("x")), Entry("status", Sc("active"))>>),
           Crit(<<Entry("id", Arr(<<"a", "b">>))>>),
           Crit(<<Entry("name", Obj(<<OpEntry("$gt", Sc("x"))>>))>>),
           Crit(<<Entry("name", Obj(<<OpEntry("$ne", Arr(<<"x">>))>>))>>),
           Crit(<<Entry("name", Obj(<<OpEntry("$gte", Sc(""))>>))>>),
           Crit(<<Entry("name", Obj(<<OpEntry("$crazy", Sc("yes"))>>))>>),
           Crit(<<Entry("name", Obj(<<OpEntry("$gt", Sc("dead")), OpEntry("$lte", Sc("x"))>>))>>),
           Crit(<<Entry("status", Obj(<<OpEntry("$ne", Arr(<<"dead", "banned">>))>>))>>) }

ConcealInputs == {UNDEF, TRUETOK, FALSETOK}

\* options.client: a session the caller took from the pool itself
SESSION == "session"

\* the options of a caller inside its own transaction
InSession == Options(UNDEF, UNDEF, NoSpec, NoSpec, UNDEF, UNDEF, SESSION)

\* the options of the operations that read nothing but options.client
ClientOptions == {NoOptions, InSession}

\* options that page, sort and project
PagedOptions ==
    Options("1", "1", SpecOf(<<Entry("name", Sc("1"))>>),
            SpecOf(<<Entry("name", Sc("-1"))>>), UNDEF, UNDEF, UNDEF)

FindOptions ==
    { Options(skip, take, NoSpec, NoSpec, conceal, UNDEF, UNDEF) :
        skip \in {UNDEF}, take \in {UNDEF, "1"}, conceal \in ConcealInputs }
    \cup {InSession, PagedOptions}

ConcealOptions ==
    { Options(UNDEF, UNDEF, NoSpec, NoSpec, conceal, UNDEF, UNDEF) :
        conceal \in ConcealInputs }
    \cup {InSession}

\* the ids given to retrieve: stored ones or not, the empty string, or none
RetrieveIds == Ids \cup {"", UNDEF, NULL}

CountOptions == ConcealOptions \cup {PagedOptions}

\* full rows for create
NewDocs == { Row(i, s, n, "t0") : i \in Ids, s \in Statuses, n \in Names }

\* the rows callers pass to update and delete: any subset of the columns
Docs ==
    { Row(i, s, n, UNDEF) : i \in Ids \cup {UNDEF}, s \in {UNDEF, "active", "dead"},
                            n \in {UNDEF, "x"} }
    \cup { Row(i, "active", "x", "t0") : i \in Ids \cup {UNDEF} }

IdDocs == { Row(i, UNDEF, UNDEF, UNDEF) : i \in Ids \cup {UNDEF} }

\* the patches given to update
Patches ==
    { Row(UNDEF, UNDEF, n, UNDEF) : n \in {UNDEF, "y", ""} }
    \cup { Row(UNDEF, "dead", "y", UNDEF), Row(UNDEF, UNDEF, UNDEF, "t0") }

\* the column values given to bulkUpdate
BulkData == { Row(UNDEF, UNDEF, n, UNDEF) : n \in {UNDEF, "y"} }

\* new Date()
Stamps == {TimeName[i] : i \in 1..MaxClock}

\* does app.report reject: it is only called when the statement failed
ReportOutcomes(out) ==
    IF out.settled = "rejected" /\ out.kind = "error" THEN BOOLEAN ELSE {FALSE}

\* the criteria given to the bulk operations
BulkCriteria ==
    {NullCriteria, Crit(<<>>)}
    \cup StatusCriteria
    \cup { Crit(<<Entry("status", Arr(<<"active", "dead">>))>>),
           Crit(<<Entry("name", Sc("x"))>>),
           Crit(<<Entry("name", Sc("x")), Entry("status", Sc("active"))>>),
           Crit(<<Entry("status", Obj(<<OpEntry("$ne", Sc("active"))>>)),
                  Entry("name", Arr(<<"x", "y">>))>>) }

(***************************************************************************)
(* PostgresService.query step by step: each query call is a chain of       *)
(* promise callbacks, and calls of different callers interleave.           *)
(***************************************************************************)
MaxCalls == 2
MaxClients == 2

CallIds == 1..MaxCalls

\* options.suppress: absent, a RegExp that matches the error message, or
\* anything else (a RegExp that does not match, or a value that is no RegExp)
SuppressInputs == {"none", "matches", "other"}

\* pc: where the call is; supplied: options.client was given;
\* releaseClientOnFinish and suppress as in the code; held: the call has a
\* client of the pool; released: how often it called client.release();
\* settled: the state of the promise query returned; reports: calls of app.report
QueryCall(pc, supplied, releaseClientOnFinish, suppress, held, released, settled, reports) ==
    [pc |-> pc, supplied |-> supplied,
     releaseClientOnFinish |-> releaseClientOnFinish, suppress |-> suppress,
     held |-> held, released |-> released, settled |-> settled, reports |-> reports]

NoQuery == QueryCall("idle", FALSE, FALSE, "none", FALSE, 0, "pending", 0)

(***************************************************************************)
(* PostgresCrudService.init step by step.  boot holds the database's       *)
(* catalog and the init call in progress:                                  *)
(*   schema, tbl      does the schema / the table exist, as committed      *)
(*   txSchema, txTbl  the same as seen inside init's transaction           *)
(*   overridden       has the application overridden _createTable          *)
(*   pc               where the call is                                    *)
(*   pre              schema and tbl when the call began                   *)
(*   log              what the call did so far, in order                   *)
(*   thrown           the error the try block threw, err the error init    *)
(*                    rejects with                                         *)
(*   released         how often the call released its session              *)
(*   settled          the state of the promise init returned               *)
(*   priorOk          had an init resolved before this call began, and     *)
(*   priorCreated     had one that fired both create hooks                 *)
(*   succeeded, created   the same, counting the call in progress          *)
(*   runs             the init calls completed                             *)
(***************************************************************************)
MaxInits == 2

Catalog(schema, tbl) == [schema |-> schema, tbl |-> tbl]

Boot(schema, tbl, overridden) ==
    [schema |-> schema, tbl |-> tbl, txSchema |-> schema, txTbl |-> tbl,
     overridden |-> overridden, pc |-> "idle", options |-> TestService,
     self |-> requiredSettings(TestService), pre |-> Catalog(schema, tbl),
     log |-> <<>>, thrown |-> "none", err |-> "none", released |-> 0,
     settled |-> "none", priorOk |-> FALSE, priorCreated |-> FALSE,
     succeeded |-> FALSE, created |-> FALSE, runs |-> 0]

\* the database the CRUD calls run on: schema and table are there
Booted == Boot(TRUE, TRUE, TRUE)

\* a table lives in a schema
BootInputs ==
    { [Boot(s, t, o) EXCEPT !.pc = "new"] : s \in BOOLEAN, t \in BOOLEAN, o \in BOOLEAN } \ 
    { [Boot(FALSE, TRUE, o) EXCEPT !.pc = "new"] : o \in BOOLEAN }

Init ==
    /\ cfg \in {constructor(o) : o \in CtorInputs}
    /\ table = {}
    /\ last = NoCall
    /\ calls = [i \in CallIds |-> NoQuery]
    /\ checkedOut = 0
    /\ boot = Booted
    /\ copy = NoDoc

\* the caller awaits each call before it makes the next one
Idle == last.op = "none"

Finish(c) ==
    /\ last' = c
    /\ table' = c.out.table
    /\ UNCHANGED <<cfg, calls, checkedOut, boot, copy>>

\* the caller takes the result of the call it awaited
Return ==
    /\ ~Idle
    /\ last' = NoCall
    /\ UNCHANGED <<cfg, table, calls, checkedOut, boot, copy>>

CallCreate ==
    /\ Idle
    /\ \E data \in NewDocs, o \in ClientOptions :
           \E rf \in ReportOutcomes(create(cfg, data, o, table, FALSE)) :
               Finish(Call("create", UNDEF, NullCriteria, o, data, NoDoc, table,
                           create(cfg, data, o, table, rf)))

CallRetrieve ==
    /\ Idle
    /\ \E id \in RetrieveIds, o \in ConcealOptions :
           \E rf \in ReportOutcomes(retrieve(cfg, id, o, table, FALSE)) :
               Finish(Call("retrieve", id, NullCriteria, o, NoDoc, NoDoc, table,
                           retrieve(cfg, id, o, table, rf)))

CallFind ==
    /\ Idle
    /\ \E c \in CriteriaInputs, o \in FindOptions :
           \E rf \in ReportOutcomes(find(cfg, c, o, table, FALSE)) :
               Finish(Call("find", UNDEF, c, o, NoDoc, NoDoc, table,
                           find(cfg, c, o, table, rf)))

CallCount ==
    /\ Idle
    /\ \E c \in CriteriaInputs, o \in CountOptions :
           \E rf \in ReportOutcomes(count(cfg, c, o, table, FALSE)) :
               Finish(Call("count", UNDEF, c, o, NoDoc, NoDoc, table,
                           count(cfg, c, o, table, rf)))

CallUpdate ==
    /\ Idle
    /\ \E doc \in Docs, data \in Patches, o \in ClientOptions, now \in Stamps :
           \E rf \in ReportOutcomes(update(cfg, doc, data, o, now, table, FALSE)) :
               Finish(Call("update", UNDEF, NullCriteria, o, doc, data, table,
                           update(cfg, doc, data, o, now, table, rf)))

CallBulkUpdate ==
    /\ Idle
    /\ \E c \in BulkCriteria, data \in BulkData, o \in ConcealOptions, now \in Stamps :
           \E rf \in ReportOutcomes(bulkUpdate(cfg, c, data, o, now, table, FALSE)) :
               Finish(Call("bulkUpdate", UNDEF, c, o, NoDoc, data, table,
                           bulkUpdate(cfg, c, data, o, now, table, rf)))

CallDelete ==
    /\ Idle
    /\ \E doc \in Docs, o \in ClientOptions, now \in Stamps :
           \E rf \in ReportOutcomes(delete(cfg, doc, o, now, table, FALSE)) :
               Finish(Call("delete", UNDEF, NullCriteria, o, doc, NoDoc, table,
                           delete(cfg, doc, o, now, table, rf)))

CallBulkDelete ==
    /\ Idle
    /\ \E c \in BulkCriteria, o \in ConcealOptions, now \in Stamps :
           \E rf \in ReportOutcomes(bulkDelete(cfg, c, o, now, table, FALSE)) :
               Finish(Call("bulkDelete", UNDEF, c, o, NoDoc, NoDoc, table,
                           bulkDelete(cfg, c, o, now, table, rf)))

CallDeletePermanently ==
    /\ Idle
    /\ \E doc \in IdDocs, o \in ClientOptions :
           \E rf \in ReportOutcomes(deletePermanently(cfg, doc, o, table, FALSE)) :
               Finish(Call("deletePermanently", UNDEF, NullCriteria, o, doc,
                           NoDoc, table,
                           deletePermanently(cfg, doc, o, table, rf)))

CallBulkDeletePermanently ==
    /\ Idle
    /\ \E c \in BulkCriteria, o \in ConcealOptions :
           \E rf \in ReportOutcomes(bulkDeletePermanently(cfg, c, o, table, FALSE)) :
               Finish(Call("bulkDeletePermanently", UNDEF, c, o, NoDoc, NoDoc, table,
                           bulkDeletePermanently(cfg, c, o, table, rf)))

Next ==
    \/ CallCreate
    \/ CallRetrieve
    \/ CallFind
    \/ CallCount
    \/ CallUpdate
    \/ CallBulkUpdate
    \/ CallDelete
    \/ CallBulkDelete
    \/ CallDeletePermanently
    \/ CallBulkDeletePermanently
    \/ Return

Spec == Init /\ [][Next]_vars

(***************************************************************************)
(* The steps of query                                                      *)
(***************************************************************************)
crud == <<cfg, table, last, boot, copy>>

\* query(sql, args, options): the promise executor
QueryStart(i) ==
    /\ calls[i].pc = "idle"
    /\ \E supplied \in BOOLEAN, suppress \in SuppressInputs :
          calls' = [calls EXCEPT ![i] =
                       IF supplied
                       THEN QueryCall("connected", TRUE, FALSE, suppress, FALSE, 0,
                                      "pending", 0)
                       ELSE QueryCall("acquiring", FALSE, TRUE, suppress, FALSE, 0,
                                      "pending", 0)]
    /\ UNCHANGED <<crud, checkedOut>>

\* this.getConnection() resolves with a client of the pool
getConnection(i) ==
    /\ calls[i].pc = "acquiring"
    /\ checkedOut < MaxClients
    /\ checkedOut' = checkedOut + 1
    /\ calls' = [calls EXCEPT ![i].pc = "connected", ![i].held = TRUE]
    /\ UNCHANGED crud

\* this.getConnection() rejects: report (not awaited) and reject
getConnectionFails(i) ==
    /\ calls[i].pc = "acquiring"
    /\ calls' = [calls EXCEPT ![i].pc = "settled", ![i].settled = "rejected",
                              ![i].reports = @ + 1]
    /\ UNCHANGED <<crud, checkedOut>>

\* .then(client => client.query(sql, args) ...)
Execute(i) ==
    /\ calls[i].pc = "connected"
    /\ calls' = [calls EXCEPT ![i].pc = "executing"]
    /\ UNCHANGED <<crud, checkedOut>>

\* if (releaseClientOnFinish) client.release()
Release(c) ==
    IF c.releaseClientOnFinish
    THEN [c EXCEPT !.released = @ + 1, !.held = FALSE]
    ELSE c

ReleasedBy(c) == IF c.releaseClientOnFinish /\ c.held THEN 1 ELSE 0

\* .then(res => { release; resolve(res) })
StatementSucceeds(i) ==
    /\ calls[i].pc = "executing"
    /\ calls' = [calls EXCEPT ![i] =
                    [Release(calls[i]) EXCEPT !.pc = "settled", !.settled = "resolved"]]
    /\ checkedOut' = checkedOut - ReleasedBy(calls[i])
    /\ UNCHANGED crud

\* !suppress || !(suppress instanceof RegExp) || !suppress.test(err.message)
Reported(c) == c.suppress # "matches"

\* .catch(async err => ...): up to the await of app.report, or to the end
\* when the report is suppressed
StatementFails(i) ==
    /\ calls[i].pc = "executing"
    /\ IF Reported(calls[i])
       THEN /\ calls' = [calls EXCEPT ![i].pc = "reporting", ![i].reports = @ + 1]
            /\ UNCHANGED checkedOut
       ELSE /\ calls' = [calls EXCEPT ![i] =
                           [Release(calls[i]) EXCEPT !.pc = "settled",
                                                     !.settled = "rejected"]]
            /\ checkedOut' = checkedOut - ReleasedBy(calls[i])
    /\ UNCHANGED crud

\* await this.app.report(...) resolves: release; reject(err)
ReportResolves(i) ==
    /\ calls[i].pc = "reporting"
    /\ calls' = [calls EXCEPT ![i] =
                    [Release(calls[i]) EXCEPT !.pc = "settled", !.settled = "rejected"]]
    /\ checkedOut' = checkedOut - ReleasedBy(calls[i])
    /\ UNCHANGED crud

\* await this.app.report(...) rejects: the async handler throws there, and the
\* lines after the await never run
ReportRejects(i) ==
    /\ calls[i].pc = "reporting"
    /\ calls' = [calls EXCEPT ![i].pc = "abandoned"]
    /\ UNCHANGED <<crud, checkedOut>>

\* the caller is done with a settled call and may call query again
QueryReturn(i) ==
    /\ calls[i].pc = "settled"
    /\ calls' = [calls EXCEPT ![i] = NoQuery]
    /\ UNCHANGED <<crud, checkedOut>>

NextQuery ==
    \E i \in CallIds :
        \/ QueryStart(i)
        \/ getConnection(i)
        \/ getConnectionFails(i)
        \/ Execute(i)
        \/ StatementSucceeds(i)
        \/ StatementFails(i)
        \/ ReportResolves(i)
        \/ ReportRejects(i)
        \/ QueryReturn(i)

SpecQuery == Init /\ [][NextQuery]_vars

(***************************************************************************)
(* The steps of init                                                       *)
(***************************************************************************)
BootInit ==
    /\ cfg \in {constructor(o) : o \in CtorInputs}
    /\ table = {}
    /\ last = NoCall
    /\ calls = [i \in CallIds |-> NoQuery]
    /\ checkedOut = 0
    /\ boot \in BootInputs
    /\ copy = NoDoc

\* how a statement sent through this.service.query(sql, args, { client })
\* ends for the awaiting caller: the promise resolves, rejects after the
\* failure was reported, or stays pending because the report itself rejected
QueryOutcomes == {"resolved", "rejected", "pending"}

Logged(b, event) == [b EXCEPT !.log = Append(@, event)]

\* an await inside the try block threw
Throw(b, e) == [b EXCEPT !.pc = "caught", !.thrown = e]

\* faulty variant: the schema is created without looking
schemaHookAlwaysCreates(exists) == "_createSchema"

\* if (!exists) this._createSchema(client) else this._updateSchema(client)
schemaHook(exists) == IF exists THEN "_updateSchema" ELSE "_createSchema"

\* faulty variant: the table is created without looking
tableHookAlwaysCreates(exists) == "_createTable"

\* if (!exists) this._createTable(client) else this._updateTable(client)
tableHook(exists) == IF exists THEN "_updateTable" ELSE "_createTable"

quiet == <<cfg, table, last, calls, copy>>

\* new PostgresCrudService(app, options): it throws, or the object is there
Construct ==
    /\ boot.pc = "new"
    /\ \E o \in RequiredInputs :
          boot' = [boot EXCEPT !.options = o, !.self = requiredSettings(o),
                               !.pc = IF requiredSettings(o).thrown = "none"
                                      THEN "idle" ELSE "thrown"]
    /\ UNCHANGED <<quiet, checkedOut>>

\* init(): const client = await this.service.getConnection()
InitCall ==
    /\ boot.pc = "idle"
    /\ boot.runs < MaxInits
    /\ checkedOut < MaxClients
    /\ checkedOut' = checkedOut + 1
    /\ boot' = [boot EXCEPT !.pc = "BEGIN", !.pre = Catalog(boot.schema, boot.tbl),
                            !.txSchema = boot.schema, !.txTbl = boot.tbl,
                            !.log = <<>>, !.thrown = "none", !.err = "none",
                            !.released = 0, !.settled = "pending",
                            !.priorOk = boot.succeeded,
                            !.priorCreated = boot.created]
    /\ UNCHANGED quiet

\* await client.query('BEGIN')
Begin ==
    /\ boot.pc = "BEGIN"
    /\ \E ok \in BOOLEAN :
          boot' = IF ok THEN [Logged(boot, "BEGIN") EXCEPT !.pc = "checkSchema"]
                  ELSE Throw(Logged(boot, "BEGIN"), "BEGIN")
    /\ UNCHANGED <<quiet, checkedOut>>

\* the await of a catalog query or of a hook's statement, ending as outcome:
\* on success the call goes on as next
Awaited(b, outcome, next, e) ==
    CASE outcome = "resolved" -> next
      [] outcome = "rejected" -> Throw(b, e)
      [] OTHER -> [b EXCEPT !.pc = "hung"]

\* SELECT schema_name FROM information_schema.schemata ...; exists = rowCount > 0
CheckSchema ==
    /\ boot.pc = "checkSchema"
    /\ \E outcome \in QueryOutcomes :
          boot' = Awaited(Logged(boot, "checkSchema"), outcome,
                          [Logged(boot, "checkSchema") EXCEPT
                              !.pc = schemaHook(boot.txSchema)],
                          "checkSchema")
    /\ UNCHANGED <<quiet, checkedOut>>

\* _createSchema: CREATE SCHEMA through this.service.query
createSchema ==
    /\ boot.pc = "_createSchema"
    /\ \E outcome \in QueryOutcomes :
          boot' = Awaited(Logged(boot, "_createSchema"), outcome,
                          [Logged(Logged(boot, "_createSchema"), "_createSchema done")
                              EXCEPT !.pc = "checkTable", !.txSchema = TRUE],
                          "_createSchema")
    /\ UNCHANGED <<quiet, checkedOut>>

\* _updateSchema: does nothing unless the application overrides it, and an
\* override may throw
updateSchema ==
    /\ boot.pc = "_updateSchema"
    /\ \E ok \in BOOLEAN :
          boot' = IF ok
                  THEN [Logged(Logged(boot, "_updateSchema"), "_updateSchema done")
                           EXCEPT !.pc = "checkTable"]
                  ELSE Throw(Logged(boot, "_updateSchema"), "_updateSchema")
    /\ UNCHANGED <<quiet, checkedOut>>

\* SELECT tablename FROM pg_catalog.pg_tables ...; exists = rowCount > 0
CheckTable ==
    /\ boot.pc = "checkTable"
    /\ \E outcome \in QueryOutcomes :
          boot' = Awaited(Logged(boot, "checkTable"), outcome,
                          [Logged(boot, "checkTable") EXCEPT
                              !.pc = tableHook(boot.txTbl)],
                          "checkTable")
    /\ UNCHANGED <<quiet, checkedOut>>

\* _createTable as the class has it: await this.app.report(err, ...); throw err.
\* When the report rejects, its error is what the hook throws
createTableDefault ==
    /\ boot.pc = "_createTable"
    /\ ~boot.overridden
    /\ \E reportFails \in BOOLEAN :
          boot' = Throw(Logged(boot, "_createTable"),
                        IF reportFails THEN "report in _createTable"
                        ELSE "_createTable must be overridden")
    /\ UNCHANGED <<quiet, checkedOut>>

\* _createTable as the application overrides it: CREATE TABLE through
\* this.service.query
createTable ==
    /\ boot.pc = "_createTable"
    /\ boot.overridden
    /\ \E outcome \in QueryOutcomes :
          boot' = Awaited(Logged(boot, "_createTable"), outcome,
                          [Logged(Logged(boot, "_createTable"), "_createTable done")
                              EXCEPT !.pc = "COMMIT", !.txTbl = TRUE],
                          "_createTable")
    /\ UNCHANGED <<quiet, checkedOut>>

\* _updateTable: does nothing unless the application overrides it
updateTable ==
    /\ boot.pc = "_updateTable"
    /\ \E ok \in BOOLEAN :
          boot' = IF ok
                  THEN [Logged(Logged(boot, "_updateTable"), "_updateTable done")
                           EXCEPT !.pc = "COMMIT"]
                  ELSE Throw(Logged(boot, "_updateTable"), "_updateTable")
    /\ UNCHANGED <<quiet, checkedOut>>

\* await client.query('COMMIT'): what the transaction did becomes visible
Commit ==
    /\ boot.pc = "COMMIT"
    /\ \E ok \in BOOLEAN :
          boot' = IF ok
                  THEN [Logged(boot, "COMMIT") EXCEPT
                           !.pc = "finally", !.schema = boot.txSchema,
                           !.tbl = boot.txTbl]
                  ELSE Throw(Logged(boot, "COMMIT"), "COMMIT")
    /\ UNCHANGED <<quiet, checkedOut>>

\* catch (err) { await this.app.report(...): when the report rejects, the
\* catch block ends there and init rejects with the report's error
Caught ==
    /\ boot.pc = "caught"
    /\ \E reportFails \in BOOLEAN :
          boot' = IF reportFails
                  THEN [boot EXCEPT !.pc = "finally", !.err = "report in init"]
                  ELSE [boot EXCEPT !.pc = "ROLLBACK", !.err = boot.thrown]
    /\ UNCHANGED <<quiet, checkedOut>>

\* await client.query('ROLLBACK'); throw err
Rollback ==
    /\ boot.pc = "ROLLBACK"
    /\ \E ok \in BOOLEAN :
          boot' = IF ok
                  THEN [Logged(boot, "ROLLBACK") EXCEPT
                           !.pc = "finally", !.txSchema = boot.schema,
                           !.txTbl = boot.tbl]
                  ELSE [Logged(boot, "ROLLBACK") EXCEPT
                           !.pc = "finally", !.err = "ROLLBACK"]
    /\ UNCHANGED <<quiet, checkedOut>>

\* both create hooks ran to their end in this call
CreatedBoth(b) ==
    /\ \E i \in 1..Len(b.log) : b.log[i] = "_createSchema done"
    /\ \E i \in 1..Len(b.log) : b.log[i] = "_createTable done"

\* finally { await client.release() }, and the promise settles
Finally ==
    /\ boot.pc = "finally"
    /\ checkedOut' = checkedOut - 1
    /\ boot' = [Logged(boot, "release") EXCEPT
                   !.pc = "done", !.released = @ + 1,
                   !.settled = IF boot.err = "none" THEN "resolved" ELSE "rejected",
                   !.succeeded = @ \/ boot.err = "none",
                   !.created = @ \/ (boot.err = "none" /\ CreatedBoth(boot))]
    /\ UNCHANGED quiet

\* the caller has the outcome of init and may call it again
InitReturn ==
    /\ boot.pc = "done"
    /\ boot' = [boot EXCEPT !.pc = "idle", !.runs = @ + 1]
    /\ UNCHANGED <<quiet, checkedOut>>

NextInit ==
    \/ Construct
    \/ InitCall
    \/ Begin
    \/ CheckSchema
    \/ createSchema
    \/ updateSchema
    \/ CheckTable
    \/ createTableDefault
    \/ createTable
    \/ updateTable
    \/ Commit
    \/ Caught
    \/ Rollback
    \/ Finally
    \/ InitReturn

SpecInit == BootInit /\ [][NextInit]_vars

(***************************************************************************)
(* Two callers run init() at the same time.  Each has its own session and  *)
(* its own transaction, opened by a plain BEGIN (READ COMMITTED): a        *)
(* catalog query sees what is committed and what its own transaction       *)
(* created; CREATE of a name another open transaction has created waits    *)
(* for that transaction to end, and fails when the name is committed.      *)
(* boot holds the committed catalog and, under inits, each caller's call.  *)
(***************************************************************************)
Racers == {1, 2}

Racing(pc, txSchema, txTbl, open, log, err, settled) ==
    [pc |-> pc, txSchema |-> txSchema, txTbl |-> txTbl, open |-> open, log |-> log,
     err |-> err, settled |-> settled]

NotRacing == Racing("idle", FALSE, FALSE, FALSE, <<>>, "none", "none")

RaceInit ==
    /\ cfg \in {constructor(o) : o \in CtorInputs}
    /\ table = {}
    /\ last = NoCall
    /\ calls = [i \in CallIds |-> NoQuery]
    /\ checkedOut = 0
    /\ \E b \in BootInputs :
          boot = [schema |-> b.schema, tbl |-> b.tbl, inits |-> [p \in Racers |-> NotRacing]]
    /\ copy = NoDoc

\* the racer p moves on to r
Race(p, r) == boot' = [boot EXCEPT !.inits[p] = r]

RacerLogged(r, what) == [r EXCEPT !.log = Append(@, what)]

\* another caller's open transaction has created the schema / the table
SchemaPending(p) ==
    \E q \in Racers \ {p} : boot.inits[q].open /\ boot.inits[q].txSchema

TablePending(p) ==
    \E q \in Racers \ {p} : boot.inits[q].open /\ boot.inits[q].txTbl

\* const client = await this.service.getConnection()
RaceCall(p) ==
    /\ boot.inits[p].pc = "idle"
    /\ checkedOut < MaxClients
    /\ checkedOut' = checkedOut + 1
    /\ Race(p, [boot.inits[p] EXCEPT !.pc = "BEGIN", !.settled = "pending"])
    /\ UNCHANGED quiet

\* await client.query('BEGIN')
RaceBegin(p) ==
    /\ boot.inits[p].pc = "BEGIN"
    /\ Race(p, [boot.inits[p] EXCEPT !.pc = "checkSchema", !.open = TRUE])
    /\ UNCHANGED <<quiet, checkedOut>>

\* the schema query and the choice of the hook
RaceCheckSchema(p) ==
    /\ boot.inits[p].pc = "checkSchema"
    /\ Race(p, [boot.inits[p] EXCEPT
                  !.pc = IF boot.schema \/ boot.inits[p].txSchema
                         THEN "updateSchema" ELSE "createSchema"])
    /\ UNCHANGED <<quiet, checkedOut>>

\* await this._createSchema(client): CREATE SCHEMA
RaceCreateSchema(p) ==
    /\ boot.inits[p].pc = "createSchema"
    /\ ~SchemaPending(p)
    /\ Race(p, IF boot.schema
               THEN [RacerLogged(boot.inits[p], "createSchema") EXCEPT
                        !.pc = "caught", !.err = "schema exists"]
               ELSE [RacerLogged(boot.inits[p], "createSchema") EXCEPT
                        !.pc = "checkTable", !.txSchema = TRUE])
    /\ UNCHANGED <<quiet, checkedOut>>

\* await this._updateSchema(client)
RaceUpdateSchema(p) ==
    /\ boot.inits[p].pc = "updateSchema"
    /\ Race(p, [RacerLogged(boot.inits[p], "updateSchema") EXCEPT !.pc = "checkTable"])
    /\ UNCHANGED <<quiet, checkedOut>>

\* the table query and the choice of the hook
RaceCheckTable(p) ==
    /\ boot.inits[p].pc = "checkTable"
    /\ Race(p, [boot.inits[p] EXCEPT
                  !.pc = IF boot.tbl \/ boot.inits[p].txTbl
                         THEN "updateTable" ELSE "createTable"])
    /\ UNCHANGED <<quiet, checkedOut>>

\* await this._createTable(client), overridden to CREATE TABLE
RaceCreateTable(p) ==
    /\ boot.inits[p].pc = "createTable"
    /\ ~TablePending(p)
    /\ Race(p, IF boot.tbl
               THEN [RacerLogged(boot.inits[p], "createTable") EXCEPT
                        !.pc = "caught", !.err = "table exists"]
               ELSE [RacerLogged(boot.inits[p], "createTable") EXCEPT
                        !.pc = "COMMIT", !.txTbl = TRUE])
    /\ UNCHANGED <<quiet, checkedOut>>

\* await this._updateTable(client)
RaceUpdateTable(p) ==
    /\ boot.inits[p].pc = "updateTable"
    /\ Race(p, [RacerLogged(boot.inits[p], "updateTable") EXCEPT !.pc = "COMMIT"])
    /\ UNCHANGED <<quiet, checkedOut>>

\* await client.query('COMMIT'): what the transaction created is there for all
RaceCommit(p) ==
    /\ boot.inits[p].pc = "COMMIT"
    /\ boot' = [boot EXCEPT !.schema = @ \/ boot.inits[p].txSchema,
                            !.tbl = @ \/ boot.inits[p].txTbl,
                            !.inits[p] = [boot.inits[p] EXCEPT !.pc = "finally",
                                                               !.open = FALSE]]
    /\ UNCHANGED <<quiet, checkedOut>>

\* catch (err): await app.report; await client.query('ROLLBACK'); throw err.
\* When the report rejects the catch block ends there, without the ROLLBACK
RaceCaught(p) ==
    /\ boot.inits[p].pc = "caught"
    /\ \E reported \in BOOLEAN :
          Race(p, IF reported
                  THEN [boot.inits[p] EXCEPT !.pc = "finally", !.open = FALSE,
                                             !.txSchema = FALSE, !.txTbl = FALSE]
                  ELSE [boot.inits[p] EXCEPT !.pc = "finally", !.err = "report"])
    /\ UNCHANGED <<quiet, checkedOut>>

\* finally: await client.release(); the promise of init settles
RaceFinally(p) ==
    /\ boot.inits[p].pc = "finally"
    /\ checkedOut' = checkedOut - 1
    /\ Race(p, [boot.inits[p] EXCEPT
                  !.pc = "done",
                  !.settled = IF boot.inits[p].err = "none"
                              THEN "resolved" ELSE "rejected"])
    /\ UNCHANGED quiet

NextRace ==
    \E p \in Racers :
        \/ RaceCall(p)
        \/ RaceBegin(p)
        \/ RaceCheckSchema(p)
        \/ RaceCreateSchema(p)
        \/ RaceUpdateSchema(p)
        \/ RaceCheckTable(p)
        \/ RaceCreateTable(p)
        \/ RaceUpdateTable(p)
        \/ RaceCommit(p)
        \/ RaceCaught(p)
        \/ RaceFinally(p)

SpecRace == RaceInit /\ [][NextRace]_vars

(***************************************************************************)
(* A caller keeps the row object retrieve gave it and later passes it to   *)
(* update, while other callers create and delete rows in between.          *)
(***************************************************************************)
\* const row = await crud.retrieve(id)
KeepRetrieved ==
    /\ Idle
    /\ \E id \in Ids :
          /\ retrieve(cfg, id, NoOptions, table, FALSE).kind = "row"
          /\ last' = Call("retrieve", id, NullCriteria, NoOptions, NoDoc, NoDoc, table,
                          retrieve(cfg, id, NoOptions, table, FALSE))
          /\ copy' = retrieve(cfg, id, NoOptions, table, FALSE).rows[1]
    /\ UNCHANGED <<cfg, table, calls, checkedOut, boot>>

\* the patches that leave the status alone
PlainPatches == {data \in Patches : data.status = UNDEF}

\* await crud.update(row, data) with the kept object, which update edits in place
UpdateCopy ==
    /\ Idle
    /\ copy # NoDoc
    /\ \E data \in PlainPatches, now \in Stamps :
          \E rf \in ReportOutcomes(update(cfg, copy, data, NoOptions, now, table, FALSE)) :
              /\ last' = Call("update", UNDEF, NullCriteria, NoOptions, copy, data, table,
                              update(cfg, copy, data, NoOptions, now, table, rf))
              /\ table' = update(cfg, copy, data, NoOptions, now, table, rf).table
              /\ copy' = update(cfg, copy, data, NoOptions, now, table, rf).docAfter
    /\ UNCHANGED <<cfg, calls, checkedOut, boot>>

NextStale ==
    \/ CallCreate
    \/ KeepRetrieved
    \/ CallDelete
    \/ CallBulkDelete
    \/ UpdateCopy
    \/ Return

SpecStale == Init /\ [][NextStale]_vars

(***************************************************************************)
(* find with a fields specification, on services whose id field is id or   *)
(* another column                                                          *)
(***************************************************************************)
\* a service whose unique column is name
NamedCtorInputs == CtorInputs \cup {CtorOptions("name", UNDEF, UNDEF, <<"name">>, UNDEF, UNDEF)}

FieldsInit ==
    /\ cfg \in {constructor(o) : o \in NamedCtorInputs}
    /\ table = {}
    /\ last = NoCall
    /\ calls = [i \in CallIds |-> NoQuery]
    /\ checkedOut = 0
    /\ boot = Booted
    /\ copy = NoDoc

\* options.fields as callers give it
FieldSpecs ==
    { SpecOf(<<Entry("name", Sc("1"))>>),
      SpecOf(<<Entry("id", Sc("0")), Entry("name", Sc("1"))>>),
      SpecOf(<<Entry("status", Sc("1")), Entry("name", Sc("0"))>>),
      SpecOf(<<Entry("name", Sc("0")), Entry("status", Sc("1"))>>),
      SpecOf(<<Entry("id", Sc("1"))>>) }

FieldsOptions == { Options(UNDEF, UNDEF, f, NoSpec, UNDEF, UNDEF, UNDEF) : f \in FieldSpecs }

CallFindFields ==
    /\ Idle
    /\ \E c \in {Crit(<<>>), Crit(<<Entry("name", Sc("x"))>>)}, o \in FieldsOptions :
           \E rf \in ReportOutcomes(find(cfg, c, o, table, FALSE)) :
               Finish(Call("find", UNDEF, c, o, NoDoc, NoDoc, table,
                           find(cfg, c, o, table, rf)))

NextFields ==
    \/ CallCreate
    \/ CallFindFields
    \/ Return

SpecFields == FieldsInit /\ [][NextFields]_vars

(***************************************************************************)
(* Vocabulary of the properties                                            *)
(***************************************************************************)
Resolved == last.out.settled = "resolved"
Dead(r) == r.status = cfg.deletedStatus
Alive(tbl) == {r \in tbl : ~Dead(r)}
RowSet(rows) == {rows[i] : i \in 1..Len(rows)}
HasId(tbl, id) == \E r \in tbl : r.id = id
RowWithId(tbl, id) == CHOOSE r \in tbl : r.id = id
Unpaged == last.options.skip = UNDEF /\ last.options.take = UNDEF
NoConceal == Options(UNDEF, UNDEF, NoSpec, NoSpec, FALSETOK, UNDEF, UNDEF)

\* the service conceals dead rows and the call did not pass conceal: false
ConcealmentOn ==
    cfg.concealDeadResources = TRUETOK /\ last.options.conceal # FALSETOK

BulkOps == {"bulkUpdate", "bulkDelete", "bulkDeletePermanently"}

(***************************************************************************)
(* C1: while concealment is on, find returns no dead row, count gives the  *)
(* number it would give with the dead rows taken out of the table, and the *)
(* bulk operations leave every dead row stored exactly as it was, whatever *)
(* the criteria.                                                           *)
(***************************************************************************)
C1_ConcealedOpsSkipDeadRows ==
    (ConcealmentOn /\ Resolved) =>
        /\ last.op = "find" => \A i \in 1..Len(last.out.rows) : ~Dead(last.out.rows[i])
        /\ last.op = "count" =>
              last.out.count =
                  count(cfg, last.criteria, last.options, Alive(last.pre), FALSE).count
        /\ last.op \in BulkOps => \A r \in last.pre : Dead(r) => r \in table

\* witness: a concealed bulk hard delete asked for the dead status itself, on a
\* table holding a dead row and a live one, and a dead row was there to be hit
C1_Witness ==
    /\ ConcealmentOn /\ Resolved
    /\ last.op = "bulkDeletePermanently"
    /\ last.criteria = Crit(<<Entry("status", Arr(<<"active", "dead">>))>>)
    /\ \E r \in last.pre : Dead(r)
    /\ \E r \in last.pre : ~Dead(r)

(***************************************************************************)
(* C2: find with empty or null criteria and no paging returns exactly the  *)
(* alive rows when concealment is on, and every row of the table when the  *)
(* call passes conceal: false or the service does not conceal.             *)
(***************************************************************************)
C2_FindAllConcealsByDefault ==
    (last.op = "find" /\ Resolved /\ Unpaged
       /\ last.criteria \in {NullCriteria, Crit(<<>>)}) =>
        /\ Len(last.out.rows) = Cardinality(RowSet(last.out.rows))
        /\ RowSet(last.out.rows) =
              IF ConcealmentOn THEN Alive(last.pre) ELSE last.pre

\* witness: find(null) with default options on a table with a live and a dead row
C2_Witness ==
    /\ last.op = "find" /\ Resolved /\ Unpaged
    /\ last.criteria = NullCriteria
    /\ last.options.conceal = UNDEF
    /\ cfg.concealDeadResources = TRUETOK
    /\ \E r \in last.pre : Dead(r)
    /\ Len(last.out.rows) = 1
    /\ Cardinality(last.pre) = 2

\* the rows that satisfy the scalar entries of a criteria other than the status
OthersHold(r, kv) ==
    \A i \in 1..Len(kv) :
        (kv[i].field # cfg.statusField /\ kv[i].val.kind = "scalar")
            => r[kv[i].field] = kv[i].val.s

ScalarStatusGiven ==
    /\ ~last.criteria.isNull
    /\ HasKey(last.criteria.kv, cfg.statusField)
    /\ GetKey(last.criteria.kv, cfg.statusField).kind = "scalar"

\* status = X AND status != deletedStatus, conjoined with the other criteria
ExpectedForStatus ==
    {r \in last.pre :
        /\ r.status = GetKey(last.criteria.kv, cfg.statusField).s
        /\ ~Dead(r)
        /\ OthersHold(r, last.criteria.kv)}

(***************************************************************************)
(* C3: with concealment on and a scalar status X in the criteria, find,    *)
(* bulkUpdate and bulkDeletePermanently select exactly the rows with       *)
(* status = X that are not dead (and that meet the other criteria), for    *)
(* every X, the empty string included.                                     *)
(***************************************************************************)
C3_ScalarStatusIsConjoined ==
    (ConcealmentOn /\ Resolved /\ ScalarStatusGiven) =>
        /\ (last.op = "find" /\ Unpaged) => RowSet(last.out.rows) = ExpectedForStatus
        /\ last.op = "bulkUpdate" => last.out.rowCount = Cardinality(ExpectedForStatus)
        /\ last.op = "bulkDeletePermanently" => last.pre \ table = ExpectedForStatus

(***************************************************************************)
(* C4: delete(row) of a stored row keeps the row: once it resolves the row *)
(* is stored with the deleted status, no row has left the table, find with *)
(* conceal: false returns it and retrieve under concealment gives null.    *)
(***************************************************************************)
C4_DeleteIsSoft ==
    (last.op = "delete" /\ Resolved /\ HasId(last.pre, last.doc.id)) =>
        /\ HasId(table, last.doc.id)
        /\ Dead(RowWithId(table, last.doc.id))
        /\ {r.id : r \in table} = {r.id : r \in last.pre}
        /\ RowWithId(table, last.doc.id)
              \in RowSet(find(cfg, Crit(<<>>), NoConceal, table, FALSE).rows)
        /\ cfg.concealDeadResources = TRUETOK =>
              retrieve(cfg, last.doc.id, NoOptions, table, FALSE).kind = "null"

\* witness: a live stored row was deleted on a concealing service
C4_Witness ==
    /\ last.op = "delete" /\ Resolved
    /\ HasId(last.pre, last.doc.id)
    /\ ~Dead(RowWithId(last.pre, last.doc.id))
    /\ cfg.concealDeadResources = TRUETOK

\* the rows retrieve can see: the service's setting alone decides
VisibleToRetrieve ==
    IF cfg.concealDeadResources = TRUETOK THEN Alive(last.pre) ELSE last.pre

(***************************************************************************)
(* C5 as stated: on a service that conceals, retrieve(id, {conceal:false}) *)
(* returns the stored row with that id even when it is dead.               *)
(***************************************************************************)
C5_RetrieveHonoursCallConceal ==
    (last.op = "retrieve" /\ Resolved
       /\ last.options.conceal = FALSETOK
       /\ cfg.concealDeadResources = TRUETOK
       /\ HasId(last.pre, last.id)) =>
        /\ last.out.kind = "row"
        /\ last.out.rows = <<RowWithId(last.pre, last.id)>>

(***************************************************************************)
(* C5 amended: retrieve does not read the call's conceal option.  With any *)
(* conceal value it returns the row with that id if the service's own      *)
(* concealDeadResources setting lets it be seen (a dead row only when that *)
(* setting is false), and null otherwise.                                  *)
(***************************************************************************)
C5_RetrieveIgnoresCallConceal ==
    (last.op = "retrieve" /\ Resolved /\ last.id \notin {UNDEF, NULL}) =>
        IF HasId(VisibleToRetrieve, last.id)
        THEN /\ last.out.kind = "row"
             /\ last.out.rows = <<RowWithId(VisibleToRetrieve, last.id)>>
        ELSE /\ last.out.kind = "null"
             /\ last.out.rows = <<>>

\* witness: conceal: false was passed for a dead row on a concealing service,
\* and null came back
C5_Witness ==
    /\ last.op = "retrieve" /\ Resolved
    /\ last.options.conceal = FALSETOK
    /\ cfg.concealDeadResources = TRUETOK
    /\ HasId(last.pre, last.id)
    /\ Dead(RowWithId(last.pre, last.id))
    /\ last.out.kind = "null"

(***************************************************************************)
(* C6: once deletePermanently(row) resolves, no row with that id is left,  *)
(* dead or alive, find with conceal: false does not return one, and the    *)
(* other rows are as they were.                                            *)
(***************************************************************************)
C6_DeletePermanentlyRemoves ==
    (last.op = "deletePermanently" /\ Resolved /\ HasId(last.pre, last.doc.id)) =>
        /\ ~HasId(table, last.doc.id)
        /\ table = last.pre \ {RowWithId(last.pre, last.doc.id)}
        /\ \A r \in RowSet(find(cfg, Crit(<<>>), NoConceal, table, FALSE).rows) :
              r.id # last.doc.id

\* witness: the row removed was a dead one, on a service that conceals
C6_Witness ==
    /\ last.op = "deletePermanently" /\ Resolved
    /\ HasId(last.pre, last.doc.id)
    /\ Dead(RowWithId(last.pre, last.doc.id))
    /\ cfg.concealDeadResources = TRUETOK
    /\ Cardinality(last.pre) = 2

(***************************************************************************)
(* C7: deletePermanently(row) resolves to the deleted row itself, a single *)
(* row as create and update resolve to, not to the driver's result object. *)
(***************************************************************************)
C7_DeletePermanentlyResolvesToRow ==
    (last.op = "deletePermanently" /\ Resolved /\ HasId(last.pre, last.doc.id)) =>
        last.out.kind = "row"

\* the keys of a patch that the allow-list does not name
PatchKeys(data) == {f \in DOMAIN data : data[f] # UNDEF}
Modifiable == {cfg.modifiableKeys[i] : i \in 1..Len(cfg.modifiableKeys)}
Unlisted(data) == PatchKeys(data) \ Modifiable

\* what the column k of the row holds after UPDATE ... SET from the row object
StoredAfter(k) ==
    IF last.out.docAfter[k] # UNDEF
    THEN last.out.docAfter[k]
    ELSE RowWithId(last.pre, last.doc.id)[k]

(***************************************************************************)
(* C8: update(row, patch) takes nothing from a patch key that is not in    *)
(* modifiableKeys: the row object keeps its own value under that key (the  *)
(* updated field gets the time stamp, never the patch's value), and the    *)
(* stored column gets the row object's value, or stays as stored when the  *)
(* row object has none.                                                    *)
(***************************************************************************)
C8_UnlistedPatchKeysIgnored ==
    last.op = "update" =>
        \A k \in Unlisted(last.data) :
            /\ IF k = cfg.updatedField
               THEN last.out.docAfter[k] \in Stamps
               ELSE last.out.docAfter[k] = last.doc[k]
            /\ (Resolved /\ HasId(last.pre, last.doc.id)) =>
                  RowWithId(table, last.doc.id)[k] = StoredAfter(k)

\* witness: a stored row was updated with a patch whose status key is not
\* allow-listed and differs from the row's status
C8_Witness ==
    /\ last.op = "update" /\ Resolved
    /\ HasId(last.pre, last.doc.id)
    /\ "status" \in Unlisted(last.data)
    /\ "name" \in Modifiable
    /\ last.data.status # RowWithId(last.pre, last.doc.id).status
    /\ last.doc.status # last.data.status

(***************************************************************************)
(* C9: update, delete and deletePermanently given a row without the id     *)
(* field reject with the usage error, acquire no session, issue no         *)
(* statement, and leave the table as it was.                               *)
(***************************************************************************)
C9_MissingIdRejectsLocally ==
    (last.op \in {"update", "delete", "deletePermanently"}
       /\ last.doc[cfg.idField] = UNDEF) =>
        /\ last.out.settled = "rejected"
        /\ last.out.kind = "usage"
        /\ last.out.stmt = NoStatement
        /\ last.out.acquired = 0
        /\ table = last.pre

\* witness: delete of a row object without id, while the table holds rows
C9_Witness ==
    /\ last.op = "delete"
    /\ last.doc[cfg.idField] = UNDEF
    /\ last.out.settled = "rejected"
    /\ last.pre # {}

\* no callback of the call is still to run
Finished(c) == c.pc \in {"settled", "abandoned"}

(***************************************************************************)
(* C10: a query call made without a caller's client that got a client from *)
(* the pool has, when nothing of it is left to run, released that client   *)
(* exactly once and settled its promise, on every path: success, failure   *)
(* reported, failure with the report suppressed, failure of the report.    *)
(***************************************************************************)
C10_AcquiredClientReleasedOnce ==
    \A i \in CallIds :
        (Finished(calls[i]) /\ ~calls[i].supplied
           /\ (calls[i].held \/ calls[i].released > 0)) =>
            /\ calls[i].released = 1
            /\ ~calls[i].held
            /\ calls[i].settled # "pending"

(***************************************************************************)
(* C11: a CRUD call given options.client issues its one statement on that  *)
(* client: it takes no client from the pool, releases none, and the        *)
(* statement is an INSERT, SELECT, UPDATE or DELETE, never BEGIN, COMMIT    *)
(* or ROLLBACK.                                                            *)
(***************************************************************************)
DataVerbs == {"INSERT", "SELECT", "UPDATE", "DELETE"}

C11_SuppliedClientOnlyUsed ==
    (~Idle /\ last.options.client # UNDEF) =>
        /\ last.out.acquired = 0
        /\ last.out.released = 0
        /\ last.out.stmt = NoStatement \/ last.out.stmt.verb \in DataVerbs
        /\ last.out.stmt = NoStatement => last.out.kind \in {"usage", "null"}

\* an update inside the caller's session changed a row
C11_Witness ==
    /\ last.op = "update"
    /\ last.options.client = SESSION
    /\ Resolved
    /\ last.out.stmt.verb = "UPDATE"
    /\ last.out.rowCount = 1
    /\ table # last.pre

(***************************************************************************)
(* Vocabulary for init                                                     *)
(***************************************************************************)
InLog(event) == \E i \in 1..Len(boot.log) : boot.log[i] = event

\* what a successful init does, in order, on a catalog as pre describes it
ExpectedInitLog(pre) ==
    << "BEGIN", "checkSchema",
       IF pre.schema THEN "_updateSchema" ELSE "_createSchema",
       IF pre.schema THEN "_updateSchema done" ELSE "_createSchema done",
       "checkTable",
       IF pre.tbl THEN "_updateTable" ELSE "_createTable",
       IF pre.tbl THEN "_updateTable done" ELSE "_createTable done",
       "COMMIT", "release" >>

\* the failures that come from outside init: a statement or an overridden
\* update hook failed
OutsideFaults ==
    {"BEGIN", "checkSchema", "checkTable", "_updateSchema", "_updateTable", "COMMIT"}

(***************************************************************************)
(* C12: a successful init fires exactly one schema hook and then exactly   *)
(* one table hook, each once; the create hook is the one fired exactly     *)
(* when the schema (the table) was absent; the schema hook is done before  *)
(* the table is checked, and COMMIT comes only after the table hook is     *)
(* done.                                                                   *)
(***************************************************************************)
C12_InitFiresOneHookEach ==
    boot.settled = "resolved" => boot.log = ExpectedInitLog(boot.pre)

\* an init that found neither schema nor table has resolved
C12_Witness ==
    /\ boot.pc = "done"
    /\ boot.settled = "resolved"
    /\ ~boot.pre.schema
    /\ InLog("_createSchema done")
    /\ InLog("_createTable done")

(***************************************************************************)
(* C13: an init called after an init that created schema and table fires   *)
(* only the update hooks, never a create hook, and does not fail on its    *)
(* own account: init is safe to call again once schema and table exist.    *)
(***************************************************************************)
C13_SecondInitOnlyUpdates ==
    /\ boot.priorCreated => boot.pre.schema /\ boot.pre.tbl
    /\ (boot.pre.schema /\ boot.pre.tbl) =>
          /\ ~InLog("_createSchema")
          /\ ~InLog("_createTable")
          /\ boot.thrown \in OutsideFaults \cup {"none"}
          /\ boot.settled = "resolved" => boot.log = ExpectedInitLog(Catalog(TRUE, TRUE))

\* the second init, after one that created both, has resolved
C13_Witness ==
    /\ boot.priorCreated
    /\ boot.pc = "done"
    /\ boot.settled = "resolved"
    /\ InLog("_updateSchema done")
    /\ InLog("_updateTable done")

(***************************************************************************)
(* C14: an init that fails at any step issues ROLLBACK, rejects with the   *)
(* error of that step, releases its session exactly once, and leaves the   *)
(* existence of schema and table as it found them.                         *)
(***************************************************************************)
C14_FailedInitRollsBack ==
    (boot.pc = "done" /\ boot.settled = "rejected") =>
        /\ InLog("ROLLBACK")
        /\ boot.log[Len(boot.log) - 1] = "ROLLBACK"
        /\ boot.err = boot.thrown
        /\ boot.released = 1
        /\ Catalog(boot.schema, boot.tbl) = boot.pre

(***************************************************************************)
(* C15: retrieve with id null or undefined resolves to null and issues no  *)
(* statement and takes no session; with any other id it issues one SELECT  *)
(* and resolves to the visible row with that id, or to null when there is  *)
(* none.                                                                   *)
(***************************************************************************)
RetrieveHits == {r \in VisibleToRetrieve : r.id = last.id}

C15_RetrieveNullIdSkipsQuery ==
    last.op = "retrieve" =>
        /\ Resolved
        /\ table = last.pre
        /\ IF last.id \in {UNDEF, NULL}
           THEN /\ last.out.kind = "null"
                /\ last.out.stmt = NoStatement
                /\ last.out.acquired = 0
           ELSE /\ last.out.stmt.verb = "SELECT"
                /\ IF RetrieveHits = {}
                   THEN last.out.kind = "null" /\ last.out.rows = <<>>
                   ELSE last.out.kind = "row"
                        /\ last.out.rows = <<CHOOSE r \in RetrieveHits : TRUE>>

\* retrieve(null) on a table that holds rows
C15_Witness ==
    /\ last.op = "retrieve"
    /\ last.id = NULL
    /\ last.pre # {}
    /\ last.out.kind = "null"

(***************************************************************************)
(* Vocabulary for the round trip: a create of a new id has resolved, and   *)
(* what retrieve(doc.id) with default options gives on the table it left.  *)
(***************************************************************************)
CreatedNew ==
    /\ last.op = "create"
    /\ Resolved
    /\ ~HasId(last.pre, last.doc.id)

RetrievedBack == retrieve(cfg, last.doc.id, NoOptions, table, FALSE)

\* the row equals the document in every field the document supplies
EqualInSupplied(row, doc) ==
    \A i \in 1..Len(Columns) : doc[Columns[i]] # UNDEF => row[Columns[i]] = doc[Columns[i]]

RoundTrips ==
    /\ RetrievedBack.settled = "resolved"
    /\ RetrievedBack.kind = "row"
    /\ Len(RetrievedBack.rows) = 1
    /\ EqualInSupplied(RetrievedBack.rows[1], last.doc)

(***************************************************************************)
(* C16 as stated: create(doc) of a new id followed by retrieve(doc.id)     *)
(* returns a row equal to doc in all supplied fields.                      *)
(***************************************************************************)
C16_CreateRetrieveRoundTrip == CreatedNew => RoundTrips

(***************************************************************************)
(* C16 amended: the round trip holds unless the service conceals and doc   *)
(* carries the deleted status; then the row is stored as given and         *)
(* retrieve(doc.id) resolves to null.                                      *)
(***************************************************************************)
C16_RoundTripUnlessConcealed ==
    CreatedNew =>
        /\ \E r \in table : r.id = last.doc.id /\ EqualInSupplied(r, last.doc)
        /\ IF cfg.concealDeadResources \notin Falsy /\ last.doc.status = cfg.deletedStatus
           THEN RetrievedBack.settled = "resolved" /\ RetrievedBack.kind = "null"
           ELSE RoundTrips

\* a live document was created and comes back
C16_Witness ==
    /\ CreatedNew
    /\ last.doc.status = "active"
    /\ last.pre # {}
    /\ RoundTrips

(***************************************************************************)
(* C17: count resolves to the number of rows find returns for the same     *)
(* criteria and the same concealment without paging, zero included; skip,  *)
(* take, sort and fields given to count change nothing.                    *)
(***************************************************************************)
\* the call's options with nothing but conceal and client left
Unpaginated(o) == Options(UNDEF, UNDEF, NoSpec, NoSpec, o.conceal, UNDEF, o.client)

FoundForCount == find(cfg, last.criteria, Unpaginated(last.options), last.pre, FALSE)

C17_CountMatchesFind ==
    last.op = "count" =>
        /\ table = last.pre
        /\ IF FoundForCount.settled = "resolved"
           THEN /\ Resolved
                /\ last.out.kind = "count"
                /\ last.out.count = Len(FoundForCount.rows)
           ELSE ~Resolved

\* count with skip and take of 1 on a table where two rows match
C17_Witness ==
    /\ last.op = "count"
    /\ last.options.take = "1"
    /\ last.options.skip = "1"
    /\ Resolved
    /\ last.out.count = 2

(***************************************************************************)
(* C18: in every statement find, bulkUpdate and bulkDeletePermanently      *)
(* build (count and bulkDelete go through them), the placeholders are      *)
(* exactly $1..$n for the n arguments, each used once, the argument at $k  *)
(* is the value meant for the clause holding $k, and the OFFSET and LIMIT  *)
(* placeholders come after every WHERE placeholder.                        *)
(***************************************************************************)
BuiltByCriteria ==
    last.op \in {"find", "count", "bulkUpdate", "bulkDelete", "bulkDeletePermanently"}

RECURSIVE Flatten(_)
Flatten(seqs) == IF seqs = <<>> THEN <<>> ELSE Head(seqs) \o Flatten(Tail(seqs))

\* the placeholder numbers of a statement in the order of its text
PlaceholdersOf(stmt) ==
    [i \in 1..Len(stmt.sets) |-> stmt.sets[i].ph]
    \o Flatten([i \in 1..Len(stmt.where) |-> stmt.where[i].ph])
    \o (IF stmt.offset # 0 THEN <<stmt.offset>> ELSE <<>>)
    \o (IF stmt.limit # 0 THEN <<stmt.limit>> ELSE <<>>)

\* the operator key a comparison was written for
KeyOfOp(op) == RangeOps[CHOOSE i \in 1..Len(RangeOps) : RangeOps[i].op = op].key

\* the values the caller's criteria (and the configured deleted status) mean
\* for a WHERE fragment, in the order of the fragment's placeholders
IntendedFor(c, v) ==
    CASE c.op = "=AND!=" -> <<v, Sc(cfg.deletedStatus)>>
      [] c.op = "=" -> <<v>>
      [] c.op = "IN" -> [j \in 1..Len(v.arr) |-> Sc(v.arr[j])]
      [] c.op = "NOT IN" ->
            [j \in 1..Len(GetOp(v, "$ne").arr) |-> Sc(GetOp(v, "$ne").arr[j])]
      [] c.op = "!=" ->
            IF v.kind = "object" THEN <<GetOp(v, "$ne")>> ELSE <<Sc(cfg.deletedStatus)>>
      [] OTHER -> <<GetOp(v, KeyOfOp(c.op))>>

ArgumentsAt(stmt, ph) == [j \in 1..Len(ph) |-> stmt.args[ph[j]]]

PlaceholdersAligned(stmt) ==
    /\ PlaceholdersOf(stmt) = [k \in 1..Len(stmt.args) |-> k]
    /\ \A i \in 1..Len(stmt.sets) :
           stmt.args[stmt.sets[i].ph] = Sc(last.out.docAfter[stmt.sets[i].field])
    /\ \A i \in 1..Len(stmt.where) :
           ArgumentsAt(stmt, stmt.where[i].ph)
               = IntendedFor(stmt.where[i], GetKey(last.criteria.kv, stmt.where[i].field))
    /\ stmt.offset # 0 => stmt.args[stmt.offset] = Sc(last.options.skip)
    /\ stmt.limit # 0 => stmt.args[stmt.limit] = Sc(last.options.take)
    /\ \A i \in 1..Len(stmt.where) : \A j \in 1..Len(stmt.where[i].ph) :
           /\ stmt.offset # 0 => stmt.where[i].ph[j] < stmt.offset
           /\ stmt.limit # 0 => stmt.where[i].ph[j] < stmt.limit

C18_PlaceholdersMatchArguments ==
    BuiltByCriteria => PlaceholdersAligned(last.out.stmt)

\* a bulkUpdate whose SET arguments come before a merged status and that changed a row
C18_Witness ==
    /\ last.op = "bulkUpdate"
    /\ Resolved
    /\ last.out.rowCount >= 1
    /\ Len(last.out.stmt.sets) >= 2
    /\ \E i \in 1..Len(last.out.stmt.where) :
           /\ last.out.stmt.where[i].op = "=AND!="
           /\ last.out.stmt.where[i].ph = <<3, 4>>

(***************************************************************************)
(* C19: when options.schema is omitted, construction takes the schema from *)
(* service.config.database if that is defined, and throws the schema error *)
(* only when neither is there.                                             *)
(***************************************************************************)
SchemaOmitted ==
    /\ boot.pc # "new"
    /\ boot.options.service # UNDEF
    /\ boot.options.schema = UNDEF

C19_SchemaDefaultsToDatabase ==
    SchemaOmitted =>
        IF boot.options.database # UNDEF
        THEN /\ boot.self.thrown # "schema"
             /\ boot.self.thrown = "none" => boot.self.schema = boot.options.database
        ELSE boot.self.thrown = "schema"

(***************************************************************************)
(* C20: update and bulkUpdate set the updated field of the rows they       *)
(* change to the current time exactly when stamping is not disabled; a     *)
(* service constructed with updatedField: null has it disabled, and its    *)
(* update and bulkUpdate leave the updated column of those rows as it was. *)
(***************************************************************************)
\* the service was constructed with options.updatedField = null
ConstructedWithNullUpdatedField ==
    /\ \E o \in CtorInputs : cfg = constructor(o)
    /\ \A o \in CtorInputs : cfg = constructor(o) => o.updatedField = NULL

StampingDisabled == cfg.updatedField \in Falsy \/ ConstructedWithNullUpdatedField

C20_StampsUnlessDisabled ==
    (last.op \in {"update", "bulkUpdate"} /\ Resolved) =>
        \A r \in Matching(last.pre, last.out.stmt) :
            IF StampingDisabled
            THEN RowWithId(table, r.id).updated = r.updated
            ELSE RowWithId(table, r.id).updated \in Stamps

(***************************************************************************)
(* C21: find with a fields specification returns exactly the columns whose *)
(* value in the specification is truthy, plus the configured id field      *)
(* unless the specification sets that field itself; for every idField.     *)
(***************************************************************************)
\* the columns a returned row carries
ColumnsIn(r) == {f \in DOMAIN r : r[f] # UNDEF}

TruthyFields(fields) ==
    {fields.kv[i].field : i \in {j \in 1..Len(fields.kv) : Truthy(fields.kv[j].val)}}

ExpectedColumns(fields) ==
    TruthyFields(fields)
    \cup (IF HasKey(fields.kv, cfg.idField) THEN {} ELSE {cfg.idField})

FoundWithFields == last.op = "find" /\ last.options.fields.given /\ Resolved

C21_FieldsPlusConfiguredId ==
    FoundWithFields =>
        \A i \in 1..Len(last.out.rows) :
            ColumnsIn(last.out.rows[i]) = ExpectedColumns(last.options.fields)

(***************************************************************************)
(* C22: under concealment find({field: {$ne: S}}) returns exactly the rows *)
(* that are not deleted and whose field is not in the non-empty sequence   *)
(* S, and with a scalar v those whose field differs from v; the status     *)
(* field included.                                                         *)
(***************************************************************************)
\* the criteria are { field: { $ne: operand } } and nothing else
NotEqualAsked ==
    /\ last.op = "find"
    /\ ~last.criteria.isNull
    /\ Len(last.criteria.kv) = 1
    /\ last.criteria.kv[1].val.kind = "object"
    /\ Len(last.criteria.kv[1].val.ops) = 1
    /\ last.criteria.kv[1].val.ops[1].op = "$ne"

Excluded(operand) ==
    IF operand.kind = "array" THEN {operand.arr[i] : i \in 1..Len(operand.arr)}
    ELSE {operand.s}

ComplementOf(field, operand) ==
    {r \in Alive(last.pre) : r[field] \notin Excluded(operand)}

C22_NotEqualWithinConcealed ==
    (NotEqualAsked /\ ConcealmentOn /\ Unpaged) =>
        /\ Resolved
        /\ RowSet(last.out.rows)
              = ComplementOf(last.criteria.kv[1].field, last.criteria.kv[1].val.ops[1].v)

(***************************************************************************)
(* C23: for an operator object every key present among $ne, $gt, $gte,     *)
(* $lt, $lte, $eqi and $nei adds one clause on the field with its operand  *)
(* as argument, whatever the operand is (0, false and the empty string     *)
(* included), and the clauses of one field all have to hold.               *)
(***************************************************************************)
\* the recognised keys in the order the compiler probes them
RecognisedKeys == <<"$ne">> \o [i \in 1..Len(RangeOps) |-> RangeOps[i].key]

HasOp(v, key) == \E i \in 1..Len(v.ops) : v.ops[i].op = key

KeysPresent(v) == SelectSeq(RecognisedKeys, LAMBDA k : HasOp(v, k))

\* the operands of the keys present, as the arguments they are to become
OperandsOf(v) ==
    Flatten([i \in 1..Len(KeysPresent(v)) |->
                IF GetOp(v, KeysPresent(v)[i]).kind = "array"
                THEN PushAll(<<>>, GetOp(v, KeysPresent(v)[i]).arr)
                ELSE <<GetOp(v, KeysPresent(v)[i])>>])

\* the fragments the statement has on a field the compiler was given
ClausesOn(stmt, f) == SelectSeq(stmt.where, LAMBDA c : c.field = f /\ c.op # "=AND!=")

ArgumentsOn(stmt, f) ==
    Flatten([i \in 1..Len(ClausesOn(stmt, f)) |-> ArgumentsAt(stmt, ClausesOn(stmt, f)[i].ph)])

CompiledFrom == last.op \in {"find", "count"} /\ last.out.stmt.verb = "SELECT"

C23_EveryOperatorKeyCompiles ==
    CompiledFrom =>
        \A i \in 1..Len(last.out.criteriaAfter.kv) :
            last.out.criteriaAfter.kv[i].val.kind = "object" =>
                /\ Len(ClausesOn(last.out.stmt, last.out.criteriaAfter.kv[i].field))
                      = Len(KeysPresent(last.out.criteriaAfter.kv[i].val))
                /\ ArgumentsOn(last.out.stmt, last.out.criteriaAfter.kv[i].field)
                      = OperandsOf(last.out.criteriaAfter.kv[i].val)

(***************************************************************************)
(* C24: an operator object without any recognised key adds no clause and   *)
(* no argument for its field and sends one diagnostic, and the call does   *)
(* not fail: find returns the rows it returns without that field.          *)
(***************************************************************************)
\* the criteria's entries that are operator objects with no recognised key
Unrecognised ==
    {i \in 1..Len(last.criteria.kv) :
        /\ last.criteria.kv[i].val.kind = "object"
        /\ KeysPresent(last.criteria.kv[i].val) = <<>>}

\* the same find with the field f taken out of the criteria
FoundWithout(f) ==
    find(cfg, Crit(DeleteKey(last.criteria.kv, f)), last.options, last.pre, FALSE)

SameAsWithout(out, without) ==
    /\ out.settled = "resolved"
    /\ out.rows = without.rows
    /\ out.stmt.where = without.stmt.where
    /\ out.stmt.args = without.stmt.args
    /\ out.reports = without.reports + 1

C24_UnrecognisedOperatorIgnored ==
    last.op = "find" =>
        \A i \in Unrecognised :
            SameAsWithout(last.out, FoundWithout(last.criteria.kv[i].field))

(***************************************************************************)
(* C25: when the statement of a query call fails, the call always rejects  *)
(* (with the driver's error), and the failure has been reported exactly    *)
(* once by then, unless options.suppress is a RegExp matching the message: *)
(* then the call rejects all the same and nothing is reported.             *)
(***************************************************************************)
\* client.query rejected for this call
StatementFailed(c) ==
    \/ c.pc \in {"reporting", "abandoned"}
    \/ c.pc = "settled" /\ c.settled = "rejected" /\ (c.supplied \/ c.released > 0)

C25_FailedStatementRejectsReportedOnce ==
    \A i \in CallIds :
        (StatementFailed(calls[i]) /\ Finished(calls[i])) =>
            /\ calls[i].settled = "rejected"
            /\ calls[i].reports = IF calls[i].suppress = "matches" THEN 0 ELSE 1

(***************************************************************************)
(* C26: when two init() calls run at the same time on a database where the *)
(* schema or the table is not there yet, at most one of them invokes the   *)
(* create hook for it, and neither fails because the other created it      *)
(* first.                                                                  *)
(***************************************************************************)
Invoked(what) ==
    {p \in Racers : \E k \in 1..Len(boot.inits[p].log) : boot.inits[p].log[k] = what}

C26_InitTransactionPreventsRaces ==
    /\ Cardinality(Invoked("createSchema")) <= 1
    /\ Cardinality(Invoked("createTable")) <= 1
    /\ \A p \in Racers : boot.inits[p].err \notin {"schema exists", "table exists"}

(***************************************************************************)
(* C27: find, count, bulkUpdate, bulkDelete and bulkDeletePermanently      *)
(* leave the caller's criteria object as it was, so a second find with the *)
(* same object and no write in between returns what a find with an equal   *)
(* fresh object returns, for every criteria and every conceal setting of   *)
(* either call.                                                            *)
(***************************************************************************)
\* the options of the second call
Concealing(conceal) == Options(UNDEF, UNDEF, NoSpec, NoSpec, conceal, UNDEF, UNDEF)

\* find again with the object the call left behind, and with a fresh equal one
FoundAgain(conceal) == find(cfg, last.out.criteriaAfter, Concealing(conceal), table, FALSE)
FoundFresh(conceal) == find(cfg, last.criteria, Concealing(conceal), table, FALSE)

C27_CriteriaObjectUntouched ==
    BuiltByCriteria =>
        /\ last.out.criteriaAfter = last.criteria
        /\ last.op = "find" =>
              \A conceal \in ConcealInputs :
                  /\ FoundAgain(conceal).settled = FoundFresh(conceal).settled
                  /\ FoundAgain(conceal).rows = FoundFresh(conceal).rows

(***************************************************************************)
(* C28: when update or delete rejects because the row object has no id,    *)
(* the caller's row object is as it was passed in: no patch field applied, *)
(* no time stamp under the updated field, no deleted status.               *)
(***************************************************************************)
RejectedForMissingId ==
    /\ last.op \in {"update", "delete"}
    /\ last.out.settled = "rejected"
    /\ last.out.kind = "usage"

C28_RejectedRowObjectUntouched ==
    RejectedForMissingId => last.out.docAfter = last.doc

(***************************************************************************)
(* C29: a row soft-deleted by delete or bulkDelete stays deleted whatever  *)
(* another caller does with a copy it read before: when that caller        *)
(* updates with its copy, changing no status, the stored status is still   *)
(* the deleted status and concealed reads do not return the row.           *)
(***************************************************************************)
\* update was called with a copy read while the row was live, and the row
\* has been deleted since
StaleCopyUpdated ==
    /\ last.op = "update"
    /\ Resolved
    /\ last.doc.status # cfg.deletedStatus
    /\ HasId(last.pre, last.doc.id)
    /\ Dead(RowWithId(last.pre, last.doc.id))

C29_DeletedRowStaysConcealed ==
    StaleCopyUpdated =>
        /\ Dead(RowWithId(table, last.doc.id))
        /\ cfg.concealDeadResources = TRUETOK =>
              retrieve(cfg, last.doc.id, NoOptions, table, FALSE).kind = "null"

(***************************************************************************)
(* C30: update(row, patch) copies every modifiable key the patch holds     *)
(* onto the row object and stores it, whatever the value: null, 0, false   *)
(* and the empty string too become the column's value.                     *)
(***************************************************************************)
Listed(data) == PatchKeys(data) \cap Modifiable

C30_ModifiableKeysAlwaysCopied ==
    (last.op = "update" /\ Resolved /\ HasId(last.pre, last.doc.id)) =>
        \A k \in Listed(last.data) :
            /\ last.out.docAfter[k] = last.data[k]
            /\ RowWithId(table, last.doc.id)[k] = last.data[k]
====
